---- MODULE Spec2Model ----
(***************************************************************************)
(* Billing ledger (usage_billing.py), tweet pre-filter, priority matcher,  *)
(* Monitor life cycle and dispatcher (agent.py) of the polydictions        *)
(* monitoring pipeline.                                                    *)
(*                                                                         *)
(* Money is counted in cents (0.01 USDC), time in hours, scores in         *)
(* percent.  The coroutines are scheduled by asyncio: a coroutine runs     *)
(* without interruption until it awaits something that really suspends.    *)
(* PaymentSystem.check_user_balance contains no await, so awaiting it      *)
(* never yields; PaymentSystem.transfer_usdc_to_platform awaits the RPC    *)
(* client, so check_and_charge_daily_fee is split at that call.  In the    *)
(* same way _handle_tweet, _refine_rules and stop_agent are split at their *)
(* calls of the Reasoning Client and of the feed source.                   *)
(*                                                                         *)
(* Spec is the ledger, SpecSkip the pre-filter, SpecPriority the priority  *)
(* matcher, SpecAgent one Monitor with its subscribers (SpecAgentFair adds *)
(* the scheduling of created tasks), SpecDispatch the dispatcher in front  *)
(* of two Monitors, SpecCreate create_agent, SpecDigest the hourly digest  *)
(* cycle, SpecWatch the /watch and /unwatch commands with the restart of  *)
(* the process, SpecRefine a refinement cycle await by await, SpecShared   *)
(* two Monitors on one feed source, SpecFeeLoop the daily-fee loop next to *)
(* the commands, and SpecMetrics the metrics dicts of a Monitor.           *)
(***************************************************************************)
EXTENDS Integers, Sequences, FiniteSets, TLC

\* ------------------------------------------------------------------ bounds
MaxTime == 36
MaxCalls == 2
MaxNodes == 2
MaxStarts == 2
MaxStops == 1

\* ------------------------------------------------------- program constants
GROK_COST_PER_CALL == 1
TWITTER_API_DAILY_FEE == 200
BILLING_PERIOD_HOURS == 24
CRITICAL_BALANCE == 500
NOTICE_BALANCE == 1000
SPAM_FOLLOWERS == 100
SMALL_ACCOUNT_FOLLOWERS == 10000
RETWEET_FOLLOWERS == 50000
RELEVANCE_DEFAULT == 70
CREDIBILITY_DEFAULT == 60
ACCOUNT_LIMIT == 5
MIN_BALANCE == 500

None == "None"

Users == {"u1"}
Events == {"e1", "e2"}

\* agent.py:729-779: each Monitor has one _daily_fee_scheduler, which awaits
\* check_and_charge_daily_fee for one subscriber at a time
FeeTasks == Events

\* call types the Monitor passes to record_grok_call
CallTypes == {"analyze_tweet", "analyze_tweet_priority",
              "synthesize_digest", "refine_ruleset"}

\* keys of the grok_calls dict created by init_event_tracking
TrackedCallTypes == {"analyze_tweet", "synthesize_digest", "refine_ruleset"}

\* follower counts around the thresholds of the pre-filter
FollowerSamples == {0, 99, 100, 9999, 10000, 49999, 50000}

\* posts as delivered by the feed (the fields the pre-filter reads)
Tweets == [isAutomated : BOOLEAN, followers : FollowerSamples,
           likeCount : {0, 1}, retweetCount : {0, 1}, replyCount : {0, 1},
           retweeted_tweet : BOOLEAN, isReply : BOOLEAN,
           isBlueVerified : BOOLEAN]

\* balances a subscriber may hold when the ledger is constructed
InitBalances == {150, 200, 201, 450, 700, 1200}

\* amounts of time that may pass between two steps
TickSteps == {12}

VARIABLES
    now,              \* datetime.utcnow(), in hours
    user_balances,    \* PaymentSystem.user_balances: user -> cents
    usage_data,       \* UsageBilling.usage_data: tracked <<user, event>> -> stats
    fee_task,         \* check_and_charge_daily_fee invocations in flight
    ret,              \* the call made by the latest step and what it returned
    initial_balance,  \* history: balance of each user at construction
    call_ok,          \* history (Spec): successful record_grok_call per user
    fee_ok,           \* history (Spec): successful daily-fee charges per user
    tweet,            \* the post handed to the pre-filter or the matcher
    agents,           \* AgentManager.agents: event_slug -> EventAgent
    intelligence_db,  \* AgentManager.intelligence_db: event_slug -> items
    handler,          \* _handle_tweet executions and where they are suspended
    refine_task,      \* _refine_rules executions and where they are suspended
    stop_tasks,       \* stop_agent executions, scheduled or suspended
    loops,            \* the scheduler tasks of each Monitor
    feed,             \* accounts registered at the feed source
    subscriptions,    \* PaymentSystem.subscriptions: event_slug -> user_id
    saved_agents,     \* the registry save_agents wrote to disk last
    watch_task,       \* process_polymarket_url executions, where suspended
    checked,          \* history: <<user, event>> whose minimum balance was
                      \* confirmed by charge_user_for_watch
    fee_loop,         \* _daily_fee_scheduler tasks and where they are suspended
    performance_metrics,  \* AgentManager.performance_metrics: event_slug ->
                          \* the metrics dict held now
    metrics_objects,  \* the metrics dicts made so far, held or dropped
    metrics_ref,      \* the dict each _handle_tweet bound to `metrics`
    since_reset       \* history: posts counted and items stored since the
                      \* metrics of a Monitor were initialised last

\* the metrics dicts are followed in SpecMetrics only, the daily-fee loops
\* in SpecFeeLoop only
metric_vars == <<performance_metrics, metrics_objects, metrics_ref,
                 since_reset>>
loop_vars == <<fee_loop, metric_vars>>

\* the payment records, the disk copy and the /watch flows are followed in
\* SpecWatch and SpecFeeLoop only
watch_vars == <<subscriptions, saved_agents, watch_task, checked, loop_vars>>

agent_vars == <<agents, intelligence_db, handler, refine_task, stop_tasks,
                loops, feed, watch_vars>>

vars == <<now, user_balances, usage_data, fee_task, ret,
          initial_balance, call_ok, fee_ok, tweet, agent_vars>>

billing_vars == <<now, user_balances, usage_data, fee_task,
                  initial_balance, call_ok, fee_ok>>

\* result.get(key) is truthy
Flag(d, k) == k \in DOMAIN d /\ d[k] = TRUE

IdleTask == [pc |-> "idle", user |-> None, event |-> None,
             balance |-> 0, now |-> 0]

NoResult == [message |-> None]

NoCall == [op |-> None, phase |-> None, user |-> None, event |-> None,
           call_type |-> None, result |-> NoResult]

NoTweet == [isAutomated |-> FALSE, followers |-> 0, likeCount |-> 0,
            retweetCount |-> 0, replyCount |-> 0, retweeted_tweet |-> FALSE,
            isReply |-> FALSE, isBlueVerified |-> FALSE]

\* user_id_str in usage_data and event_slug in usage_data[user_id_str]
HasTracking(u, e) == <<u, e>> \in DOMAIN usage_data

\* ---------------------------------------------------------- pure helpers

\* usage_billing.py:68-82, the stats dict of a freshly tracked event
NewEventData(t) ==
    [last_billing_cycle |-> t,
     grok_calls |-> [c \in TrackedCallTypes |-> 0],
     total_grok_calls |-> 0,
     total_grok_cost |-> 0,
     twitter_api_days |-> 1,
     twitter_api_cost |-> TWITTER_API_DAILY_FEE,
     total_cost |-> TWITTER_API_DAILY_FEE,
     last_charge |-> t]

\* usage_billing.py:96
MinRequired == GROK_COST_PER_CALL + TWITTER_API_DAILY_FEE

\* usage_billing.py:98, the refusal test of can_afford_grok_call
CallFeeOnly(balance) == balance < GROK_COST_PER_CALL
BelowMinRequired(balance) == balance < MinRequired

\* usage_billing.py:87-109
can_afford_grok_call(balance) ==
    IF BelowMinRequired(balance)
    THEN [can_afford |-> FALSE, balance |-> balance, message |-> "Insufficient balance"]
    ELSE [can_afford |-> TRUE, balance |-> balance, message |-> "Balance OK"]

\* usage_billing.py:144-149, counters after one recorded call
IncrementCounters(event_data, call_type) ==
    [event_data EXCEPT
        !.grok_calls = IF call_type \in DOMAIN @
                       THEN [@ EXCEPT ![call_type] = @ + 1] ELSE @,
        !.total_grok_calls = @ + 1,
        !.total_grok_cost = @ + GROK_COST_PER_CALL,
        !.total_cost = @ + GROK_COST_PER_CALL]

\* usage_billing.py:153
CallDebit(current_balance) == current_balance - GROK_COST_PER_CALL

\* usage_billing.py:184
NotYetDueInverted(last_cycle, t) == t - last_cycle > BILLING_PERIOD_HOURS
NotYetDue(last_cycle, t) == t - last_cycle < BILLING_PERIOD_HOURS

\* usage_billing.py:190
FeeCheckAgainstCallCost(balance) == balance < GROK_COST_PER_CALL
CannotPayFee(balance) == balance < TWITTER_API_DAILY_FEE

\* usage_billing.py:215
FeeDebit(balance) == balance - TWITTER_API_DAILY_FEE

\* usage_billing.py:224-230
InclusiveWarning(new_balance) ==
    IF new_balance <= CRITICAL_BALANCE THEN "LOW BALANCE WARNING"
    ELSE IF new_balance <= NOTICE_BALANCE THEN "Balance Notice"
    ELSE None
low_balance_warning(new_balance) ==
    IF new_balance < CRITICAL_BALANCE THEN "LOW BALANCE WARNING"
    ELSE IF new_balance < NOTICE_BALANCE THEN "Balance Notice"
    ELSE None

\* usage_billing.py:208-212
ChargeDay(event_data, t) ==
    [event_data EXCEPT
        !.last_billing_cycle = t,
        !.twitter_api_days = @ + 1,
        !.twitter_api_cost = @ + TWITTER_API_DAILY_FEE,
        !.total_cost = @ + TWITTER_API_DAILY_FEE,
        !.last_charge = t]

\* agent.py:585-625
SkipZeroEngagement(t) ==
    IF t.isAutomated THEN TRUE
    ELSE IF t.followers < SPAM_FOLLOWERS THEN TRUE
    ELSE IF t.likeCount + t.retweetCount + t.replyCount = 0
            /\ t.followers < SMALL_ACCOUNT_FOLLOWERS THEN TRUE
    ELSE IF t.retweeted_tweet /\ t.followers < RETWEET_FOLLOWERS THEN TRUE
    ELSE IF t.isReply /\ ~t.isBlueVerified
            /\ t.followers < SMALL_ACCOUNT_FOLLOWERS THEN TRUE
    ELSE FALSE
should_skip_tweet(t) ==
    LET followers == t.followers
        engagement == t.likeCount + t.retweetCount + t.replyCount
    IN
    IF t.isAutomated THEN TRUE
    ELSE IF followers < SPAM_FOLLOWERS THEN TRUE
    ELSE IF engagement = 0 /\ followers < SMALL_ACCOUNT_FOLLOWERS THEN FALSE
    ELSE IF t.retweeted_tweet /\ followers < RETWEET_FOLLOWERS THEN TRUE
    ELSE IF t.isReply /\ ~t.isBlueVerified
            /\ followers < SMALL_ACCOUNT_FOLLOWERS THEN TRUE
    ELSE FALSE

\* ------------------------------------------------- strings and rulesets

\* dict.get(key, default)
Get(d, k, default) == IF k \in DOMAIN d THEN d[k] ELSE default

\* a string is the sequence of its characters
LowerChar(c) == CASE c = "A" -> "a" [] c = "B" -> "b" [] OTHER -> c

\* str.lower()
lower(s) == [i \in 1..Len(s) |-> LowerChar(s[i])]

\* str.lstrip(c)
RECURSIVE lstrip(_, _)
lstrip(s, c) == IF s # <<>> /\ Head(s) = c THEN lstrip(Tail(s), c) ELSE s

\* kw in text, for strings
Contains(kw, text) ==
    \E i \in 0..(Len(text) - Len(kw)) : SubSeq(text, i + 1, i + Len(kw)) = kw

\* account names, keywords and post texts that occur
Name_Ab == <<"A", "b">>
Name_atAb == <<"@", "A", "b">>
Name_aB == <<"a", "B">>
Name_ba == <<"b", "a">>
Word_Bb == <<"B", "b">>
Text_aBB == <<"a", "B", "B">>
Text_ab == <<"a", "b">>

\* agent.py:549-581, the priority nodes a Ruleset may carry; every key but
\* the type is read with a default
NodeSamples ==
    {[type |-> "account_specific", account |-> Name_atAb,
      keywords |-> <<Word_Bb>>, reason |-> "account and keyword"],
     [type |-> "account_any", account |-> Name_Ab, reason |-> "any post"],
     [type |-> "keyword_critical", keywords |-> <<Text_ab, Word_Bb>>,
      min_followers |-> 1000, reason |-> "critical keyword"],
     [type |-> "breaking_news", keywords |-> <<Word_Bb>>,
      verified_only |-> TRUE, reason |-> "verified news"],
     [type |-> "breaking_news", keywords |-> <<Word_Bb>>,
      verified_only |-> FALSE, reason |-> "any news"],
     [type |-> "breaking_news", keywords |-> <<Word_Bb>>],
     [type |-> "watchlist", account |-> Name_Ab, reason |-> "unknown type"]}

\* a post with no content
NoPost == [userName |-> <<>>, text |-> <<>>, isAutomated |-> FALSE,
           followers |-> 0, likeCount |-> 0, retweetCount |-> 0,
           replyCount |-> 0, retweeted_tweet |-> FALSE, isReply |-> FALSE,
           isBlueVerified |-> FALSE]

\* posts handed to the priority matcher (the fields it reads vary)
PriorityPosts ==
    {[NoPost EXCEPT !.userName = n, !.text = t, !.isBlueVerified = v,
                    !.followers = f] :
        n \in {Name_aB, Name_atAb, Name_ba}, t \in {Text_aBB, Text_ab, <<>>},
        v \in BOOLEAN, f \in {999, 1000}}

\* agent.py:552,555: any(kw in tweet_text for kw in keywords), the keywords
\* lowered
AnyKeywordIn(node, tweet_text) ==
    LET keywords == Get(node, "keywords", <<>>) IN
    \E i \in DOMAIN keywords : Contains(lower(keywords[i]), tweet_text)

\* agent.py:551, 560
TargetAccount(node) == lstrip(lower(Get(node, "account", <<>>)), "@")

\* agent.py:546-581, the test one node of the scan applies to the post
NodeMatchesStrictFollowers(node, t) ==
    LET author_username == lstrip(lower(t.userName), "@")
        tweet_text == lower(t.text)
        node_type == Get(node, "type", None)
    IN
    CASE node_type = "account_specific" ->
            author_username = TargetAccount(node)
            /\ AnyKeywordIn(node, tweet_text)
      [] node_type = "account_any" -> author_username = TargetAccount(node)
      [] node_type = "keyword_critical" ->
            t.followers > Get(node, "min_followers", 0)
            /\ AnyKeywordIn(node, tweet_text)
      [] node_type = "breaking_news" ->
            (~Get(node, "verified_only", TRUE) \/ t.isBlueVerified)
            /\ AnyKeywordIn(node, tweet_text)
      [] OTHER -> FALSE
NodeMatches(node, t) ==
    LET author_username == lstrip(lower(t.userName), "@")
        tweet_text == lower(t.text)
        node_type == Get(node, "type", None)
    IN
    CASE node_type = "account_specific" ->
            author_username = TargetAccount(node)
            /\ AnyKeywordIn(node, tweet_text)
      [] node_type = "account_any" -> author_username = TargetAccount(node)
      [] node_type = "keyword_critical" ->
            t.followers >= Get(node, "min_followers", 0)
            /\ AnyKeywordIn(node, tweet_text)
      [] node_type = "breaking_news" ->
            (~Get(node, "verified_only", TRUE) \/ t.isBlueVerified)
            /\ AnyKeywordIn(node, tweet_text)
      [] OTHER -> FALSE

\* agent.py:556, 563, 572, 581: node.get('reason', <default of the type>)
NodeReason(node) ==
    LET node_type == Get(node, "type", None) IN
    Get(node, "reason",
        CASE node_type = "account_specific" ->
                "Priority account + keyword match"
          [] node_type = "account_any" -> "Critical account activity"
          [] node_type = "keyword_critical" -> "Critical keyword detected"
          [] OTHER -> "Breaking news alert")

\* agent.py:546-583, the scan from node i on
RECURSIVE ScanNodes(_, _, _)
ScanNodes(priority_nodes, i, t) ==
    IF i > Len(priority_nodes) THEN [is_priority |-> FALSE, reason |-> ""]
    ELSE IF NodeMatches(priority_nodes[i], t)
    THEN [is_priority |-> TRUE, reason |-> NodeReason(priority_nodes[i])]
    ELSE ScanNodes(priority_nodes, i + 1, t)

\* agent.py:529-583
check_priority_node(t, ruleset) ==
    LET priority_nodes == Get(ruleset, "priority_nodes", <<>>) IN
    IF priority_nodes = <<>> THEN [is_priority |-> FALSE, reason |-> ""]
    ELSE ScanNodes(priority_nodes, 1, t)

\* accounts a Ruleset may name
FeedAccounts == {Name_Ab, Name_ba}

\* twitter_twitterapio.py:357-473: the accounts registered at the feed source
NoFeed == [registered |-> {}]

\* no _daily_fee_scheduler was created
NoFeeLoops == fee_loop = [e \in {} |-> None]

\* no metrics dict was made
NoMetrics ==
    /\ performance_metrics = [e \in {} |-> 0]
    /\ metrics_objects = <<>>
    /\ metrics_ref = [h \in {} |-> 0]
    /\ since_reset = [e \in {} |-> None]

\* no payment record, nothing on disk, no /watch flow under way
NoWatch ==
    /\ subscriptions = [e \in {} |-> None]
    /\ saved_agents = [e \in {} |-> None]
    /\ watch_task = [u \in {} |-> None]
    /\ checked = {}
    /\ NoFeeLoops
    /\ NoMetrics

\* AgentManager.__init__ before any agent was created or loaded
NoAgents ==
    /\ agents = [e \in {} |-> None]
    /\ intelligence_db = [e \in {} |-> <<>>]
    /\ handler = [h \in {} |-> None]
    /\ refine_task = [e \in {} |-> None]
    /\ stop_tasks = [e \in {} |-> None]
    /\ loops = [e \in {} |-> None]
    /\ feed = NoFeed

\* ------------------------------------------------------------- the ledger

\* time passes
Tick ==
    /\ \E d \in TickSteps :
          /\ now + d <= MaxTime
          /\ now' = now + d
    /\ ret' = NoCall
    /\ UNCHANGED <<user_balances, usage_data, fee_task,
                   initial_balance, call_ok, fee_ok, tweet, agent_vars>>

\* usage_billing.py:61-85.  Its only caller is create_agent (agent.py:257),
\* which the bot invokes for a slug that has no agent yet (bot.py:1063-1067),
\* so a (subscriber, event) pair is initialised once.
init_event_tracking(u, e) ==
    /\ ~HasTracking(u, e)
    /\ usage_data' = [p \in DOMAIN usage_data \cup {<<u, e>>} |->
                         IF p = <<u, e>> THEN NewEventData(now)
                         ELSE usage_data[p]]
    /\ ret' = [NoCall EXCEPT !.op = "init_event_tracking", !.phase = "return",
                             !.user = u, !.event = e]
    /\ UNCHANGED <<now, user_balances, fee_task, initial_balance, call_ok,
                   fee_ok, tweet, agent_vars>>

\* usage_billing.py:87-109, called on its own
CanAffordGrokCall(u) ==
    /\ ret' = [NoCall EXCEPT !.op = "can_afford_grok_call", !.phase = "return",
                             !.user = u,
                             !.result = can_afford_grok_call(user_balances[u])]
    /\ UNCHANGED <<billing_vars, tweet, agent_vars>>

\* usage_billing.py:111-165
record_grok_call(u, e, call_type) ==
    LET affordability == can_afford_grok_call(user_balances[u])
        call == [NoCall EXCEPT !.op = "record_grok_call", !.phase = "return",
                               !.user = u, !.event = e, !.call_type = call_type]
    IN
    IF ~affordability.can_afford
    THEN /\ ret' = [call EXCEPT !.result =
                       [success |-> FALSE, balance |-> affordability.balance,
                        message |-> affordability.message, should_pause |-> TRUE]]
         /\ UNCHANGED <<billing_vars, tweet, agent_vars>>
    ELSE IF ~HasTracking(u, e)
    THEN /\ ret' = [call EXCEPT !.result =
                       [success |-> FALSE, balance |-> 0,
                        message |-> "No usage tracking found"]]
         /\ UNCHANGED <<billing_vars, tweet, agent_vars>>
    ELSE LET new_balance == CallDebit(user_balances[u]) IN
         /\ call_ok[u] < MaxCalls
         /\ usage_data' = [usage_data EXCEPT ![<<u, e>>] =
                              IncrementCounters(@, call_type)]
         /\ user_balances' = [user_balances EXCEPT ![u] = new_balance]
         /\ call_ok' = [call_ok EXCEPT ![u] = @ + 1]
         /\ ret' = [call EXCEPT !.result =
                       [success |-> TRUE, balance |-> new_balance,
                        message |-> "Grok call recorded"]]
         /\ UNCHANGED <<now, fee_task, initial_balance, fee_ok, tweet, agent_vars>>

\* usage_billing.py:167-204, up to the await of the transfer
check_and_charge_daily_fee_call(u, e) ==
    LET call == [NoCall EXCEPT !.op = "check_and_charge_daily_fee",
                               !.phase = "return", !.user = u, !.event = e]
    IN
    /\ fee_task[e].pc = "idle"
    /\ IF ~HasTracking(u, e)
       THEN /\ ret' = [call EXCEPT !.result =
                          [charged |-> FALSE, amount |-> 0,
                           message |-> "No usage tracking found"]]
            /\ UNCHANGED <<billing_vars, tweet, agent_vars>>
       ELSE IF NotYetDue(usage_data[<<u, e>>].last_billing_cycle, now)
       THEN /\ ret' = [call EXCEPT !.result =
                          [charged |-> FALSE, amount |-> 0,
                           message |-> "Not yet 24 hours"]]
            /\ UNCHANGED <<billing_vars, tweet, agent_vars>>
       ELSE IF CannotPayFee(user_balances[u])
       THEN /\ ret' = [call EXCEPT !.result =
                          [charged |-> FALSE, amount |-> 0,
                           message |-> "Insufficient balance",
                           should_stop |-> TRUE]]
            /\ UNCHANGED <<billing_vars, tweet, agent_vars>>
       ELSE /\ fee_task' = [fee_task EXCEPT ![e] =
                              [pc |-> "transfer", user |-> u, event |-> e,
                               balance |-> user_balances[u], now |-> now]]
            /\ ret' = [call EXCEPT !.phase = "await"]
            /\ UNCHANGED <<now, user_balances, usage_data, initial_balance,
                           call_ok, fee_ok, tweet, agent_vars>>

\* usage_billing.py:206-247, after transfer_usdc_to_platform returned
check_and_charge_daily_fee_resume(t, transfer_success) ==
    LET u == fee_task[t].user
        e == fee_task[t].event
        call == [NoCall EXCEPT !.op = "check_and_charge_daily_fee",
                               !.phase = "return", !.user = u, !.event = e]
    IN
    /\ fee_task[t].pc = "transfer"
    /\ fee_task' = [fee_task EXCEPT ![t] = IdleTask]
    /\ IF transfer_success
       THEN LET new_balance == FeeDebit(fee_task[t].balance) IN
            /\ usage_data' = [usage_data EXCEPT ![<<u, e>>] =
                                ChargeDay(@, fee_task[t].now)]
            /\ user_balances' = [user_balances EXCEPT ![u] = new_balance]
            /\ fee_ok' = [fee_ok EXCEPT ![u] = @ + 1]
            /\ ret' = [call EXCEPT !.result =
                          [charged |-> TRUE, amount |-> TWITTER_API_DAILY_FEE,
                           message |-> "Daily TwitterAPI.io fee charged",
                           new_balance |-> new_balance,
                           signature |-> "signature",
                           warning |-> low_balance_warning(new_balance)]]
            /\ UNCHANGED <<now, initial_balance, call_ok, tweet, agent_vars>>
       ELSE /\ ret' = [call EXCEPT !.result =
                          [charged |-> FALSE, amount |-> 0,
                           message |-> "Transfer failed",
                           should_stop |-> TRUE]]
            /\ UNCHANGED <<now, user_balances, usage_data, initial_balance,
                           call_ok, fee_ok, tweet, agent_vars>>

InitEventTracking == \E u \in Users, e \in Events : init_event_tracking(u, e)
CanAfford == \E u \in Users : CanAffordGrokCall(u)
RecordGrokCall ==
    \E u \in Users, e \in Events, c \in CallTypes : record_grok_call(u, e, c)
DailyFeeCall ==
    \E u \in Users, e \in Events : check_and_charge_daily_fee_call(u, e)
DailyFeeResume ==
    \E t \in FeeTasks, ok \in BOOLEAN : check_and_charge_daily_fee_resume(t, ok)

Init ==
    /\ NoWatch
    /\ now = 0
    /\ user_balances \in [Users -> InitBalances]
    /\ usage_data = [p \in {} |-> NewEventData(0)]
    /\ fee_task = [t \in FeeTasks |-> IdleTask]
    /\ ret = NoCall
    /\ initial_balance = user_balances
    /\ call_ok = [u \in Users |-> 0]
    /\ fee_ok = [u \in Users |-> 0]
    /\ tweet = NoTweet
    /\ NoAgents

Next ==
    \/ Tick
    \/ InitEventTracking
    \/ CanAfford
    \/ RecordGrokCall
    \/ DailyFeeCall
    \/ DailyFeeResume

Spec == Init /\ [][Next]_vars

\* ---------------------------------------------------------- the pre-filter

\* agent.py:318-340: the feed hands a post to the Monitor
ReceiveTweet ==
    /\ tweet' \in Tweets
    /\ ret' = NoCall
    /\ UNCHANGED <<billing_vars, agent_vars>>

\* agent.py:429, the call of _should_skip_tweet on the post
ShouldSkipTweet ==
    /\ ret' = [NoCall EXCEPT !.op = "_should_skip_tweet", !.phase = "return",
                             !.result = [skip |-> should_skip_tweet(tweet)]]
    /\ UNCHANGED <<billing_vars, tweet, agent_vars>>

InitSkip ==
    /\ NoWatch
    /\ now = 0
    /\ user_balances = [u \in Users |-> 0]
    /\ usage_data = [p \in {} |-> NewEventData(0)]
    /\ fee_task = [t \in FeeTasks |-> IdleTask]
    /\ ret = NoCall
    /\ initial_balance = user_balances
    /\ call_ok = [u \in Users |-> 0]
    /\ fee_ok = [u \in Users |-> 0]
    /\ tweet \in Tweets
    /\ NoAgents

NextSkip ==
    \/ ReceiveTweet
    \/ ShouldSkipTweet

SpecSkip == InitSkip /\ [][NextSkip]_vars

\* ------------------------------------------------- the priority matcher

\* the ledger of a manager that was handed no ledger work
NoLedger ==
    /\ now = 0
    /\ user_balances = [u \in Users |-> 0]
    /\ usage_data = [p \in {} |-> NewEventData(0)]
    /\ fee_task = [t \in FeeTasks |-> IdleTask]
    /\ initial_balance = user_balances
    /\ call_ok = [u \in Users |-> 0]
    /\ fee_ok = [u \in Users |-> 0]

\* priority_nodes lists of up to MaxNodes nodes
NodeLists == UNION {[1..n -> NodeSamples] : n \in 0..MaxNodes}

\* Rulesets that differ in their priority nodes; one has no such key
MatcherRulesets ==
    {[accounts |-> <<>>, priority_nodes |-> nodes] : nodes \in NodeLists}
        \cup {[accounts |-> <<>>]}

\* agent.py:36-46, a Monitor as far as the matcher reads it
MatcherAgent(ruleset) ==
    [status |-> "active", ruleset |-> ruleset, subscribers |-> <<>>]

\* agent.py:345, a post arrives for the Monitor
ReceivePost ==
    /\ tweet' \in PriorityPosts
    /\ ret' = NoCall
    /\ UNCHANGED <<billing_vars, agent_vars>>

\* agent.py:372, the call of _check_priority_node on the post
CheckPriorityNode ==
    /\ ret' = [NoCall EXCEPT
                  !.op = "_check_priority_node", !.phase = "return",
                  !.event = "e1",
                  !.result = check_priority_node(tweet, agents["e1"].ruleset)]
    /\ UNCHANGED <<billing_vars, tweet, agent_vars>>

InitPriority ==
    /\ NoWatch
    /\ NoLedger
    /\ ret = NoCall
    /\ tweet \in PriorityPosts
    /\ agents \in {[e \in {"e1"} |-> MatcherAgent(r)] : r \in MatcherRulesets}
    /\ intelligence_db = [e \in {"e1"} |-> <<>>]
    /\ handler = [h \in {} |-> None]
    /\ refine_task = [e \in {} |-> None]
    /\ stop_tasks = [e \in {} |-> None]
    /\ loops = [e \in {} |-> None]
    /\ feed = NoFeed

NextPriority ==
    \/ ReceivePost
    \/ CheckPriorityNode

SpecPriority == InitPriority /\ [][NextPriority]_vars

\* ------------------------------------------------------------ the Monitor
\* One Monitor, created by create_agent and driven by start_agent,
\* stop_agent, add_subscriber, remove_subscriber, _handle_tweet and the
\* refinement loop.  A coroutine runs until it awaits the Reasoning Client or
\* the feed source; awaiting record_grok_call never yields.  The counters of
\* the performance metrics are not kept; each step of _handle_tweet reports
\* which of them it wrote.  The digest loop runs in a specification of its
\* own below; the daily-fee loop is left out.

Monitors == {"e1"}
Subscribers == {"u1", "u2"}
HandlerTasks == {"h1"}

\* the subscriber who asks for the Monitor first
Creators == {"u1"}

\* a balance that pays for two calls of the Reasoning Client before it
\* reaches the affordability floor of 2.01
AgentBalances == {202}

\* Rulesets the Reasoning Client returns; the second names another account,
\* raises the relevance threshold and leaves the credibility threshold out
Ruleset1 ==
    [accounts |-> <<Name_Ab>>,
     filters |-> [relevance_threshold |-> 70, credibility_threshold |-> 60],
     priority_nodes |-> <<[type |-> "account_any", account |-> Name_atAb,
                           reason |-> "any post"]>>]
Ruleset2 ==
    [accounts |-> <<Name_ba>>,
     filters |-> [relevance_threshold |-> 90],
     priority_nodes |-> <<[type |-> "account_any", account |-> Name_atAb,
                           reason |-> "any post"]>>]
Rulesets == {Ruleset1, Ruleset2}

\* posts: from the priority account or not, passing the pre-filter or not
VipPost == [NoPost EXCEPT !.userName = Name_aB, !.followers = 50000,
                          !.likeCount = 1]
VipBotPost == [VipPost EXCEPT !.isAutomated = TRUE]
PlainPost == [VipPost EXCEPT !.userName = Name_ba]
SpamPost == [PlainPost EXCEPT !.followers = 0]
AgentPosts == {VipPost, VipBotPost, PlainPost, SpamPost}

\* grok_engine.py:284-292, classification results (scores in percent)
Analyses ==
    {[relevant |-> TRUE, relevance_score |-> 80, credibility_score |-> 70,
      priority |-> "low"],
     [relevant |-> TRUE, relevance_score |-> 95, credibility_score |-> 70,
      priority |-> "high"],
     [relevant |-> FALSE, relevance_score |-> 95, credibility_score |-> 70,
      priority |-> "low"],
     [relevant |-> TRUE, relevance_score |-> 95, credibility_score |-> 50,
      priority |-> "medium"]}

\* what _call_grok yields: nothing, text that is not JSON, or JSON
Responses(values) ==
    {[kind |-> "none"], [kind |-> "garbage"]}
        \cup {[kind |-> "json", value |-> v] : v \in values}

\* the Python value None where a dict is expected
NoneValue == [none |-> TRUE]
IsNone(x) == "none" \in DOMAIN x

\* grok_engine.py:327-341
analyze_tweet(response) ==
    IF response.kind = "json" THEN response.value ELSE NoneValue

\* grok_engine.py:433-448
refine_ruleset(current_ruleset, response) ==
    IF response.kind = "json" THEN response.value ELSE current_ruleset

\* the elements of a list
Range(seq) == {seq[i] : i \in DOMAIN seq}

\* d[k] = v for a dict d
Extend(d, k, v) == [x \in DOMAIN d \cup {k} |-> IF x = k THEN v ELSE d[x]]

\* twitter_twitterapio.py:438-473
remove_multiple_users_from_monitor(f, accounts) ==
    [f EXCEPT !.registered = @ \ accounts]

\* twitter_twitterapio.py:357-390
add_multiple_users_to_monitor(f, accounts) ==
    [f EXCEPT !.registered = @ \cup accounts]

\* the requests a step sent to the feed source, in order
FeedRemoval(accounts) == [kind |-> "feed_remove", accounts |-> accounts]
FeedAddition(accounts) == [kind |-> "feed_add", accounts |-> accounts]

\* frames of the coroutines
IdleHandler == [pc |-> "idle", event |-> None, tweet |-> NoPost,
                is_priority_node |-> FALSE, priority_reason |-> "",
                ruleset |-> NoneValue, failed |-> FALSE]
NoLoop == [pc |-> "none", current_ruleset |-> NoneValue]
SleepingLoop == [pc |-> "sleep", current_ruleset |-> NoneValue]
NoStops == [created |-> 0, awaiting |-> 0]
NoLoops == [started |-> 0, registered |-> 0, cancelled |-> {},
            digest_task |-> "none"]

\* the call made by the latest step, for the Monitor's operations
AgentCall(op, phase, e, result) ==
    [NoCall EXCEPT !.op = op, !.phase = phase, !.event = e, !.result = result]

\* usage_billing.py:111-165 as a function of the ledger
charge_grok_call(bal, usage, u, e, call_type) ==
    LET affordability == can_afford_grok_call(bal[u]) IN
    IF ~affordability.can_afford
    THEN [result |-> [success |-> FALSE, balance |-> affordability.balance,
                      message |-> affordability.message,
                      should_pause |-> TRUE],
          bal |-> bal, usage |-> usage]
    ELSE IF <<u, e>> \notin DOMAIN usage
    THEN [result |-> [success |-> FALSE, balance |-> 0,
                      message |-> "No usage tracking found"],
          bal |-> bal, usage |-> usage]
    ELSE [result |-> [success |-> TRUE, balance |-> CallDebit(bal[u]),
                      message |-> "Grok call recorded"],
          bal |-> [bal EXCEPT ![u] = CallDebit(@)],
          usage |-> [usage EXCEPT ![<<u, e>>] = IncrementCounters(@, call_type)]]

\* agent.py:944-958 (the first definition leaves out the stop_agent task
\* created when the list becomes empty)
RemoveWithoutStop(agent, u) ==
    LET present == u \in Range(agent.subscribers)
        rest == SelectSeq(agent.subscribers, LAMBDA x : x # u)
    IN [agent |-> [agent EXCEPT !.subscribers = rest],
        stop_created |-> FALSE,
        effects |-> IF present THEN <<[kind |-> "remove", user |-> u]>>
                    ELSE <<>>]
remove_subscriber(agent, u) ==
    LET present == u \in Range(agent.subscribers)
        rest == SelectSeq(agent.subscribers, LAMBDA x : x # u)
    IN [agent |-> [agent EXCEPT !.subscribers = rest],
        stop_created |-> present /\ rest = <<>>,
        effects |-> IF present THEN <<[kind |-> "remove", user |-> u]>>
                    ELSE <<>>]

\* agent.py:852-892.  The notification is printed, remove_subscriber runs,
\* and awaiting its bool result raises TypeError.
RemoveThenNotify(agent, u, billing_result) ==
    LET r == remove_subscriber(agent, u) IN
    [agent |-> r.agent, stop_created |-> r.stop_created,
     effects |-> r.effects \o
                 <<[kind |-> "notify", user |-> u,
                    balance |-> Get(billing_result, "balance", 0)]>>,
     raised |-> TRUE]
notify_low_balance_and_pause(agent, u, billing_result) ==
    LET r == remove_subscriber(agent, u) IN
    [agent |-> r.agent, stop_created |-> r.stop_created,
     effects |-> <<[kind |-> "notify", user |-> u,
                    balance |-> Get(billing_result, "balance", 0)]>>
                 \o r.effects,
     raised |-> TRUE]

\* agent.py:379-384 (434-439, 793-798): record_grok_call for the subscribers
\* in list order, up to the first one that fails
RECURSIVE ChargeEach(_, _, _, _, _)
ChargeEach(subs, bal, usage, e, call_type) ==
    IF subs = <<>>
    THEN [bal |-> bal, usage |-> usage, failed |-> None, result |-> NoResult]
    ELSE LET c == charge_grok_call(bal, usage, Head(subs), e, call_type) IN
         IF ~c.result.success
         THEN [bal |-> bal, usage |-> usage, failed |-> Head(subs),
               result |-> c.result]
         ELSE ChargeEach(Tail(subs), c.bal, c.usage, e, call_type)

\* agent.py:379-394 (434-449, 793-808), the billing gate: the exception of
\* _notify_low_balance_and_pause ends the loop and the coroutine at the first
\* subscriber who fails; then the test of lines 391-394 (446-449, 805-808)
\* for an empty subscriber list, which the first definition leaves out
GateWithoutEmptyTest(e, call_type) ==
    LET agent == agents[e]
        c == ChargeEach(agent.subscribers, user_balances, usage_data, e,
                        call_type)
    IN
    IF c.failed # None
    THEN LET n == notify_low_balance_and_pause(agent, c.failed, c.result) IN
         [bal |-> c.bal, usage |-> c.usage, agent |-> n.agent,
          stop_created |-> n.stop_created, effects |-> n.effects,
          outcome |-> "raised"]
    ELSE [bal |-> c.bal, usage |-> c.usage, agent |-> agent,
          stop_created |-> FALSE, effects |-> <<>>, outcome |-> "passed"]
BillingGate(e, call_type) ==
    LET agent == agents[e]
        c == ChargeEach(agent.subscribers, user_balances, usage_data, e,
                        call_type)
    IN
    IF c.failed # None
    THEN LET n == notify_low_balance_and_pause(agent, c.failed, c.result) IN
         [bal |-> c.bal, usage |-> c.usage, agent |-> n.agent,
          stop_created |-> n.stop_created, effects |-> n.effects,
          outcome |-> "raised"]
    ELSE [bal |-> c.bal, usage |-> c.usage, agent |-> agent,
          stop_created |-> FALSE, effects |-> <<>>,
          outcome |-> IF agent.subscribers = <<>> THEN "no_subscribers"
                      ELSE "passed"]

\* stop_agent executions that exist, scheduled or suspended, stay below
\* MaxStops
StopBudget(e) == stop_tasks[e].created + stop_tasks[e].awaiting < MaxStops

\* the writes of the billing gate
ApplyGate(e, g) ==
    /\ g.stop_created => StopBudget(e)
    /\ user_balances' = g.bal
    /\ usage_data' = g.usage
    /\ agents' = [agents EXCEPT ![e] = g.agent]
    /\ stop_tasks' = [stop_tasks EXCEPT ![e].created =
                         IF g.stop_created THEN @ + 1 ELSE @]

\* grok_engine.py:81-223: the parsed JSON of the answer, or None
generate_initial_ruleset(response) ==
    IF response.kind = "json" THEN response.value ELSE NoneValue

\* Python's "not ruleset": None and the empty dict are falsy
Falsy(d) == IsNone(d) \/ DOMAIN d = {}

\* seq[:n]
Take(seq, n) == SubSeq(seq, 1, IF Len(seq) < n THEN Len(seq) ELSE n)

\* twitter_twitterapio.py:300-355: the name is stripped of its leading @ and
\* sent to the feed source, which accepts it or not
add_user_to_monitor(username, accepted) == lstrip(username, "@") \in accepted

\* twitter_twitterapio.py:357-390, the result dict of
\* add_multiple_users_to_monitor: the stripped names of the accepted accounts
\* in the order asked
RECURSIVE MonitorResult(_, _)
MonitorResult(usernames, accepted) ==
    IF usernames = <<>>
    THEN [successful |-> <<>>, failed |-> <<>>, total_added |-> 0]
    ELSE LET rest == MonitorResult(Tail(usernames), accepted)
             username == Head(usernames)
         IN IF add_user_to_monitor(username, accepted)
            THEN [rest EXCEPT
                     !.successful = <<lstrip(username, "@")>> \o @,
                     !.total_added = @ + 1]
            ELSE [rest EXCEPT !.failed = <<username>> \o @]

\* what create_agent returned and what it was given
CreateRet(e, initial_subscriber, response, accepted, returned, saved) ==
    [AgentCall("create_agent", "return", e,
               [returned |-> returned, response |-> response,
                accepted |-> accepted, saved |-> saved])
        EXCEPT !.user = initial_subscriber]

\* agent.py:206 and 218-222: the first five accounts of the Ruleset are sent
\* to the feed source (in the first definition, all of them)
RegisterAllAccounts(ruleset, accepted) ==
    MonitorResult(Get(ruleset, "accounts", <<>>), accepted)
RegisterAccounts(ruleset, accepted) ==
    MonitorResult(Take(Get(ruleset, "accounts", <<>>), ACCOUNT_LIMIT), accepted)

\* agent.py:131-263, create_agent.  response is the answer of the Reasoning
\* Client and accepted the accounts the feed source agrees to follow.  The
\* registry is written after the last await, so the writes are one step;
\* saved is the registry save_agents writes to disk.
create_agent(e, initial_subscriber, response, accepted) ==
    LET ruleset == generate_initial_ruleset(response)
        monitor_result == RegisterAccounts(ruleset, accepted)
    IN
    /\ IF Falsy(ruleset)
          \/ Get(ruleset, "accounts", <<>>) = <<>>
          \/ monitor_result.total_added = 0
       THEN /\ ret' = CreateRet(e, initial_subscriber, response, accepted,
                                None, NoneValue)
            /\ UNCHANGED <<agents, intelligence_db, feed, usage_data>>
       ELSE /\ agents' = Extend(agents, e,
                            [status |-> "setup",
                             ruleset |-> [ruleset EXCEPT !.accounts =
                                             monitor_result.successful],
                             subscribers |-> <<initial_subscriber>>])
            /\ intelligence_db' = Extend(intelligence_db, e, <<>>)
            /\ feed' = add_multiple_users_to_monitor(
                           feed, Range(monitor_result.successful))
            /\ usage_data' = Extend(usage_data, <<initial_subscriber, e>>,
                                    NewEventData(now))
            /\ ret' = CreateRet(e, initial_subscriber, response, accepted,
                                e, agents')
    /\ UNCHANGED <<now, user_balances, fee_task, initial_balance, call_ok,
                   fee_ok, tweet, handler, refine_task, stop_tasks, loops>>

\* agent.py:280-316; g numbers the scheduler tasks this call creates
start_agent(e) ==
    /\ e \in DOMAIN agents
    /\ loops[e].started < MaxStarts
    /\ LET g == loops[e].started + 1 IN
       /\ agents' = [agents EXCEPT ![e].status = "active"]
       /\ loops' = [loops EXCEPT ![e].started = g, ![e].registered = g]
       /\ refine_task' = [refine_task EXCEPT ![e][g] = SleepingLoop]
    /\ ret' = AgentCall("start_agent", "return", e, NoResult)
    /\ UNCHANGED <<billing_vars, tweet, intelligence_db, handler, stop_tasks,
                   feed>>

\* agent.py:913-924: cancel and forget the tasks the dicts hold
CancelTasks(e) ==
    LET g == loops[e].registered IN
    /\ loops' = [loops EXCEPT ![e].registered = 0,
                              ![e].cancelled = IF g = 0 THEN @ ELSE @ \cup {g},
                              ![e].digest_task =
                                  IF @ \in {"sleep", "call"} THEN "done"
                                  ELSE @]
    /\ refine_task' =
          IF g = 0 THEN refine_task
          ELSE [refine_task EXCEPT ![e][g] =
                   IF @.pc \in {"sleep", "call", "removing", "adding"}
                   THEN [pc |-> "done", current_ruleset |-> NoneValue]
                   ELSE @]

\* what a step of stop_agent did
StopRet(e, phase, step, effects) ==
    AgentCall("stop_agent", phase, e, [step |-> step, effects |-> effects])

\* agent.py:894-911, up to the await of the feed source; scheduled tells
\* whether this is the task remove_subscriber created or a direct call
stop_agent_call(e, scheduled) ==
    /\ e \in DOMAIN agents
    /\ IF scheduled THEN stop_tasks[e].created > 0 ELSE StopBudget(e)
    /\ agents' = [agents EXCEPT ![e].status = "stopped"]
    /\ LET accounts == Get(agents[e].ruleset, "accounts", <<>>)
           taken == IF scheduled THEN 1 ELSE 0
       IN
       IF accounts # <<>>
       THEN /\ feed' = remove_multiple_users_from_monitor(feed,
                                                           Range(accounts))
            /\ stop_tasks' = [stop_tasks EXCEPT ![e].created = @ - taken,
                                                ![e].awaiting = @ + 1]
            /\ ret' = StopRet(e, "await", "call",
                              <<FeedRemoval(Range(accounts))>>)
            /\ UNCHANGED <<loops, refine_task>>
       ELSE /\ CancelTasks(e)
            /\ stop_tasks' = [stop_tasks EXCEPT ![e].created = @ - taken]
            /\ ret' = StopRet(e, "return", "call", <<>>)
            /\ UNCHANGED feed
    /\ UNCHANGED <<billing_vars, tweet, intelligence_db, handler>>

\* agent.py:913-930, after the feed source answered
stop_agent_resume(e) ==
    /\ stop_tasks[e].awaiting > 0
    /\ CancelTasks(e)
    /\ stop_tasks' = [stop_tasks EXCEPT ![e].awaiting = @ - 1]
    /\ ret' = StopRet(e, "return", "resume", <<>>)
    /\ UNCHANGED <<billing_vars, tweet, agents, intelligence_db, handler,
                   feed>>

\* agent.py:932-942
add_subscriber(e, u) ==
    /\ e \in DOMAIN agents
    /\ agents' = [agents EXCEPT ![e].subscribers =
                     IF u \in Range(@) THEN @ ELSE Append(@, u)]
    /\ ret' = [AgentCall("add_subscriber", "return", e, NoResult)
                  EXCEPT !.user = u]
    /\ UNCHANGED <<billing_vars, tweet, intelligence_db, handler, refine_task,
                   stop_tasks, loops, feed>>

\* agent.py:944-958, called by a subscriber who leaves
remove_subscriber_call(e, u) ==
    /\ e \in DOMAIN agents
    /\ LET r == remove_subscriber(agents[e], u) IN
       /\ r.stop_created => StopBudget(e)
       /\ agents' = [agents EXCEPT ![e] = r.agent]
       /\ stop_tasks' = [stop_tasks EXCEPT ![e].created =
                            IF r.stop_created THEN @ + 1 ELSE @]
       /\ ret' = [AgentCall("remove_subscriber", "return", e,
                            [effects |-> r.effects])
                     EXCEPT !.user = u]
    /\ UNCHANGED <<billing_vars, tweet, intelligence_db, handler, refine_task,
                   loops, feed>>

\* what a step of _handle_tweet did: metrics are the keys of the performance
\* metrics the step wrote, delivered the items it handed to
\* _send_to_subscribers for immediate delivery, post the post a step that
\* went past the status test was working on
HandlerRet(h, e, phase, outcome, effects) ==
    AgentCall("_handle_tweet", phase, e,
              [task |-> h, outcome |-> outcome, effects |-> effects,
               analysis |-> NoneValue, metrics |-> {}, delivered |-> <<>>,
               post |-> NoPost])

\* agent.py:362-364: the step counted the post (in the first definition, as
\* a relevant one too)
CountedAsRelevant(r, frame, metrics) ==
    [r EXCEPT !.result.metrics = metrics \cup {"relevant_tweets"},
              !.result.post = frame.tweet]
Counted(r, frame, metrics) ==
    [r EXCEPT !.result.metrics = metrics, !.result.post = frame.tweet]

\* what _handle_tweet did with the classification it was given
ResumeRet(h, e, phase, outcome, analysis) ==
    [HandlerRet(h, e, phase, outcome, <<>>) EXCEPT !.result.analysis = analysis]

\* agent.py:627-640: only an item of high priority is sent at once
deliver_intelligence(intelligence) ==
    IF Get(intelligence, "priority", "low") = "high" THEN <<intelligence>>
    ELSE <<>>

\* agent.py:491-504, the metrics written for a stored item
StoredMetrics(analysis) ==
    {"relevant_tweets", "avg_relevance_score", "avg_credibility_score"}
        \cup (IF Get(analysis, "priority", None) = "high"
              THEN {"high_priority_tweets"} ELSE {})

\* agent.py:426-459, from the pre-filter to the classification call
NormalPath(h, e, frame, metrics) ==
    IF should_skip_tweet(frame.tweet)
    THEN /\ handler' = [handler EXCEPT ![h] = IdleHandler]
         /\ ret' = Counted(HandlerRet(h, e, "return", "prefiltered", <<>>),
                           frame, metrics)
         /\ UNCHANGED <<user_balances, usage_data, agents, stop_tasks>>
    ELSE LET g == BillingGate(e, "analyze_tweet") IN
         /\ ApplyGate(e, g)
         /\ IF g.outcome = "passed"
            THEN /\ handler' = [handler EXCEPT ![h] =
                                   [frame EXCEPT !.pc = "classify",
                                                 !.ruleset = agents[e].ruleset]]
                 /\ ret' = Counted(HandlerRet(h, e, "await", "classify",
                                              g.effects), frame, metrics)
            ELSE /\ handler' = [handler EXCEPT ![h] = IdleHandler]
                 /\ ret' = Counted(HandlerRet(h, e,
                                              IF g.outcome = "raised"
                                              THEN "raise" ELSE "return",
                                              g.outcome, g.effects),
                                   frame, metrics)

\* agent.py:374-402, from the billing gate of a priority post to its
\* classification call
PriorityPath(h, e, frame, metrics) ==
    LET g == BillingGate(e, "analyze_tweet_priority") IN
    /\ ApplyGate(e, g)
    /\ IF g.outcome = "passed"
       THEN /\ handler' = [handler EXCEPT ![h] =
                              [frame EXCEPT !.pc = "classify_priority",
                                            !.ruleset = agents[e].ruleset]]
            /\ ret' = Counted(HandlerRet(h, e, "await", "classify",
                                         g.effects), frame, metrics)
       ELSE /\ handler' = [handler EXCEPT ![h] = IdleHandler]
            /\ ret' = Counted(HandlerRet(h, e,
                                         IF g.outcome = "raised" THEN "raise"
                                         ELSE "return",
                                         g.outcome, g.effects),
                              frame, metrics)

\* agent.py:345-459, _handle_tweet up to its first classification call
handle_tweet_call(h, e, t) ==
    /\ handler[h].pc = "idle"
    /\ e \in DOMAIN agents
    /\ IF agents[e].status # "active"
       THEN /\ ret' = HandlerRet(h, e, "return", "inactive", <<>>)
            /\ UNCHANGED <<user_balances, usage_data, agents, stop_tasks,
                           handler>>
       ELSE LET p == check_priority_node(t, agents[e].ruleset)
                frame == [IdleHandler EXCEPT
                             !.event = e, !.tweet = t,
                             !.is_priority_node = p.is_priority,
                             !.priority_reason = p.reason]
            IN IF p.is_priority
               THEN PriorityPath(h, e, frame, {"total_tweets"})
               ELSE NormalPath(h, e, frame, {"total_tweets"})
    /\ UNCHANGED <<now, fee_task, initial_balance, call_ok, fee_ok, tweet,
                   intelligence_db, refine_task, loops, feed>>

\* agent.py:404-415
PriorityItem(frame, analysis) ==
    [post |-> frame.tweet, relevant |-> analysis.relevant,
     relevance_score |-> analysis.relevance_score,
     credibility_score |-> analysis.credibility_score,
     priority |-> "high", priority_node_reason |-> frame.priority_reason,
     is_priority_node |-> TRUE]

\* agent.py:483-487
NormalItem(frame, analysis) ==
    [post |-> frame.tweet, relevant |-> analysis.relevant,
     relevance_score |-> analysis.relevance_score,
     credibility_score |-> analysis.credibility_score,
     priority |-> analysis.priority]

\* agent.py:465-480, the thresholds of a Ruleset applied to a classification
\* (the first definition leaves the credibility threshold out)
VerdictWithoutCredibility(analysis, ruleset) ==
    LET filters == Get(ruleset, "filters", [k \in {} |-> 0])
        relevance_threshold ==
            Get(filters, "relevance_threshold", RELEVANCE_DEFAULT)
    IN
    IF ~analysis.relevant THEN "not_relevant"
    ELSE IF analysis.relevance_score < relevance_threshold
    THEN "low_relevance"
    ELSE "stored"
Verdict(analysis, ruleset) ==
    LET filters == Get(ruleset, "filters", [k \in {} |-> 0])
        relevance_threshold ==
            Get(filters, "relevance_threshold", RELEVANCE_DEFAULT)
        credibility_threshold ==
            Get(filters, "credibility_threshold", CREDIBILITY_DEFAULT)
    IN
    IF ~analysis.relevant THEN "not_relevant"
    ELSE IF analysis.relevance_score < relevance_threshold
    THEN "low_relevance"
    ELSE IF analysis.credibility_score < credibility_threshold
    THEN "low_credibility"
    ELSE "stored"

\* agent.py:404-424 and 461-527, _handle_tweet after a classification call
\* returned.  On the non-priority path the metrics code raises TypeError at
\* line 509 (the author dict is not hashable) once the item is appended and
\* counted, before save_intelligence and _deliver_intelligence (523-526).
handle_tweet_resume(h, response) ==
    LET frame == handler[h]
        e == frame.event
        analysis == analyze_tweet(response)
    IN
    /\ frame.pc \in {"classify_priority", "classify"}
    /\ IF frame.pc = "classify_priority"
       THEN IF ~IsNone(analysis)
            THEN /\ intelligence_db' =
                       [intelligence_db EXCEPT ![e] =
                           Append(@, PriorityItem(frame, analysis))]
                 /\ handler' = [handler EXCEPT ![h] = IdleHandler]
                 /\ ret' = [ResumeRet(h, e, "return", "stored", analysis)
                               EXCEPT !.result.metrics =
                                          {"high_priority_tweets"},
                                      !.result.delivered =
                                          deliver_intelligence(
                                              PriorityItem(frame, analysis))]
                 /\ UNCHANGED <<user_balances, usage_data, agents, stop_tasks>>
            ELSE /\ NormalPath(h, e, [frame EXCEPT !.failed = TRUE], {})
                 /\ UNCHANGED intelligence_db
       ELSE /\ handler' = [handler EXCEPT ![h] = IdleHandler]
            /\ UNCHANGED <<user_balances, usage_data, agents, stop_tasks>>
            /\ IF IsNone(analysis)
               THEN /\ ret' = ResumeRet(h, e, "return", "failed", analysis)
                    /\ UNCHANGED intelligence_db
               ELSE LET verdict == Verdict(analysis, agents[e].ruleset) IN
                    IF verdict = "stored"
                    THEN /\ intelligence_db' =
                               [intelligence_db EXCEPT ![e] =
                                   Append(@, NormalItem(frame, analysis))]
                         /\ ret' = Counted(ResumeRet(h, e, "raise", "stored",
                                                     analysis),
                                           frame, StoredMetrics(analysis))
                    ELSE /\ ret' = ResumeRet(h, e, "return", verdict, analysis)
                         /\ UNCHANGED intelligence_db
    /\ UNCHANGED <<now, fee_task, initial_balance, call_ok, fee_ok, tweet,
                   refine_task, loops, feed>>

\* what a step of _refine_rules did; writes names what the step assigned:
\* the Ruleset and last_refinement of the Monitor, the performance metrics
RefineRet(e, g, phase, outcome, effects) ==
    AgentCall("_refine_rules", phase, e,
              [task |-> g, outcome |-> outcome, effects |-> effects,
               writes |-> {}])

\* agent.py:720: the loop tests the status before it sleeps again
LoopAfterCycle(status) ==
    IF status = "active" THEN SleepingLoop
    ELSE [pc |-> "done", current_ruleset |-> NoneValue]

\* agent.py:718-727 and 781-814: refinement loop g wakes and runs
\* _refine_rules up to the call of the Reasoning Client; an exception of the
\* billing gate is caught by the loop
refine_rules_call(e, g) ==
    /\ e \in DOMAIN agents
    /\ refine_task[e][g].pc = "sleep"
    /\ LET gate == BillingGate(e, "refine_ruleset") IN
       /\ ApplyGate(e, gate)
       /\ IF gate.outcome = "passed"
          THEN /\ refine_task' =
                     [refine_task EXCEPT ![e][g] =
                         [pc |-> "call",
                          current_ruleset |-> agents[e].ruleset]]
               /\ ret' = RefineRet(e, g, "await", "refine", gate.effects)
          ELSE /\ refine_task' = [refine_task EXCEPT ![e][g] =
                                     LoopAfterCycle(agents[e].status)]
               /\ ret' = RefineRet(e, g,
                                   IF gate.outcome = "raised" THEN "raise"
                                   ELSE "return",
                                   gate.outcome, gate.effects)
    /\ UNCHANGED <<now, fee_task, initial_balance, call_ok, fee_ok, tweet,
                   intelligence_db, handler, loops, feed>>

\* agent.py:822-844, the feed source follows the change of accounts
FollowAccounts(f, old_ruleset, refined_ruleset) ==
    LET old_accounts == Range(Get(old_ruleset, "accounts", <<>>))
        new_accounts == Range(Get(refined_ruleset, "accounts", <<>>))
        accounts_to_remove == old_accounts \ new_accounts
        accounts_to_add == new_accounts \ old_accounts
        removed == IF accounts_to_remove = {} THEN f
                   ELSE remove_multiple_users_from_monitor(f, accounts_to_remove)
    IN [feed |-> IF accounts_to_add = {} THEN removed
                 ELSE add_multiple_users_to_monitor(removed, accounts_to_add),
        effects |-> (IF accounts_to_remove = {} THEN <<>>
                     ELSE <<FeedRemoval(accounts_to_remove)>>)
                    \o (IF accounts_to_add = {} THEN <<>>
                        ELSE <<FeedAddition(accounts_to_add)>>)]

\* agent.py:810-850, _refine_rules after the Reasoning Client answered; the
\* requests to the feed source are sent in this order and taken as one step.
\* Whatever refine_ruleset returns is installed unless it is falsy: the
\* Ruleset and last_refinement are assigned (819-820) and the metrics are
\* replaced by a fresh dict (847).
refine_rules_resume(e, g, response) ==
    /\ e \in DOMAIN agents
    /\ refine_task[e][g].pc = "call"
    /\ LET refined_ruleset ==
               refine_ruleset(refine_task[e][g].current_ruleset, response)
           old_ruleset == agents[e].ruleset
           follow == FollowAccounts(feed, old_ruleset, refined_ruleset)
           outcome == IF response.kind = "json" THEN "refined" ELSE "failed"
       IN
       IF Falsy(refined_ruleset)
       THEN /\ ret' = RefineRet(e, g, "return", outcome, <<>>)
            /\ UNCHANGED <<agents, feed>>
       ELSE /\ agents' = [agents EXCEPT ![e].ruleset = refined_ruleset]
            /\ feed' = follow.feed
            /\ ret' = [RefineRet(e, g, "return", outcome, follow.effects)
                          EXCEPT !.result.writes =
                                    {"ruleset", "last_refinement",
                                     "performance_metrics"}]
    /\ refine_task' = [refine_task EXCEPT ![e][g] =
                          LoopAfterCycle(agents[e].status)]
    /\ UNCHANGED <<billing_vars, tweet, intelligence_db, handler, stop_tasks,
                   loops>>

\* polydictor_bot.py:95-128 and bot.py:1062-1070 create a Monitor for a slug
\* the registry does not hold; here the Reasoning Client returns Ruleset1 and
\* the feed source accepts every account
CreateAgent ==
    \E e \in Monitors, u \in Creators :
        /\ e \notin DOMAIN agents
        /\ create_agent(e, u, [kind |-> "json", value |-> Ruleset1],
                        FeedAccounts)
        /\ UNCHANGED watch_vars
StartAgent == \E e \in Monitors : start_agent(e) /\ UNCHANGED watch_vars
StopAgent ==
    \E e \in Monitors, scheduled \in BOOLEAN :
        stop_agent_call(e, scheduled) /\ UNCHANGED watch_vars
StopAgentResume ==
    \E e \in Monitors : stop_agent_resume(e) /\ UNCHANGED watch_vars
AddSubscriber ==
    \E e \in Monitors, u \in Subscribers :
        add_subscriber(e, u) /\ UNCHANGED watch_vars
RemoveSubscriber ==
    \E e \in Monitors, u \in Subscribers :
        remove_subscriber_call(e, u) /\ UNCHANGED watch_vars
HandleTweet ==
    \E h \in HandlerTasks, e \in Monitors, t \in AgentPosts :
        handle_tweet_call(h, e, t) /\ UNCHANGED watch_vars
HandleTweetResume ==
    \E h \in HandlerTasks, r \in Responses(Analyses) :
        handle_tweet_resume(h, r) /\ UNCHANGED watch_vars
RefineRules ==
    \E e \in Monitors, g \in 1..MaxStarts :
        refine_rules_call(e, g) /\ UNCHANGED watch_vars
RefineRulesResume ==
    \E e \in Monitors, g \in 1..MaxStarts, r \in Responses(Rulesets) :
        refine_rules_resume(e, g, r) /\ UNCHANGED watch_vars

InitAgent ==
    /\ NoWatch
    /\ now = 0
    /\ user_balances \in [Subscribers -> AgentBalances]
    /\ usage_data = [p \in {} |-> NewEventData(0)]
    /\ fee_task = [t \in FeeTasks |-> IdleTask]
    /\ ret = NoCall
    /\ initial_balance = user_balances
    /\ call_ok = [u \in Subscribers |-> 0]
    /\ fee_ok = [u \in Subscribers |-> 0]
    /\ tweet = NoPost
    /\ agents = [e \in {} |-> None]
    /\ intelligence_db = [e \in {} |-> <<>>]
    /\ handler = [h \in HandlerTasks |-> IdleHandler]
    /\ refine_task = [e \in Monitors |-> [g \in 1..MaxStarts |-> NoLoop]]
    /\ stop_tasks = [e \in Monitors |-> NoStops]
    /\ loops = [e \in Monitors |-> NoLoops]
    /\ feed = NoFeed

NextAgent ==
    \/ CreateAgent
    \/ StartAgent
    \/ StopAgent
    \/ StopAgentResume
    \/ AddSubscriber
    \/ RemoveSubscriber
    \/ HandleTweet
    \/ HandleTweetResume
    \/ RefineRules
    \/ RefineRulesResume

SpecAgent == InitAgent /\ [][NextAgent]_vars

\* The stop_agent task that remove_subscriber creates (agent.py:956) is
\* ready as soon as it exists, and the event loop runs every ready task.
ScheduledStop ==
    \E e \in Monitors : stop_agent_call(e, TRUE) /\ UNCHANGED watch_vars
SpecAgentFair == SpecAgent /\ WF_vars(ScheduledStop)

\* --------------------------------------------------------- the dispatcher
\* _websocket_tweet_handler is the callback the feed client invokes for every
\* batch of posts.  The client runs its callbacks on a thread of its own.

\* the Monitors of the manager, in the order of the agents dict
DispatchOrder == <<"e1", "e2">>

\* account lists of the Rulesets; one Ruleset has no accounts key
DispatchRulesets ==
    {[accounts |-> a] : a \in {<<>>, <<Name_Ab>>, <<Name_ba, Name_Ab>>}}
        \cup {[priority_nodes |-> <<>>]}

\* agent.py:36-46, a Monitor as far as the dispatcher reads it
DispatchAgents ==
    [status : {"setup", "active", "stopped"}, ruleset : DispatchRulesets,
     subscribers : {<<"u1">>}]

\* the batches the feed delivers: posts of two authors, in any order
Batches == {<<>>, <<VipPost>>, <<PlainPost>>, <<VipPost, PlainPost>>,
            <<PlainPost, VipPost>>}

\* twitter_twitterapio.py:572-579: the thread of the callbacks runs the
\* WebSocket client, not an asyncio event loop
ws_thread_runs_loop == FALSE

\* asyncio.create_task(coro): the coroutine is scheduled on the event loop
\* running on the calling thread; RuntimeError where none runs
create_task(started, coro, running_loop) ==
    IF running_loop THEN [started |-> started \cup {coro}, raised |-> FALSE]
    ELSE [started |-> started, raised |-> TRUE]

\* agent.py:331-340, the Monitors of one post
RECURSIVE ScanAgents(_, _, _)
ScanAgents(order, t, started) ==
    IF order = <<>> THEN [started |-> started, raised |-> FALSE]
    ELSE LET event_slug == Head(order)
             agent == agents[event_slug]
             author_username == lower(t.userName)
             monitored_accounts ==
                 {lower(acc) : acc \in Range(Get(agent.ruleset, "accounts", <<>>))}
         IN
         IF agent.status # "active"
         THEN ScanAgents(Tail(order), t, started)
         ELSE IF author_username \in monitored_accounts
         THEN LET c == create_task(started,
                                   [event |-> event_slug, tweet |-> t],
                                   ws_thread_runs_loop)
              IN IF c.raised THEN c
                 ELSE ScanAgents(Tail(order), t, c.started)
         ELSE ScanAgents(Tail(order), t, started)

\* agent.py:323-343: the posts of the batch in order; an exception leaves the
\* loops and is logged
RECURSIVE websocket_tweet_handler(_, _)
websocket_tweet_handler(tweets, started) ==
    IF tweets = <<>> THEN [started |-> started, raised |-> FALSE]
    ELSE LET r == ScanAgents(DispatchOrder, Head(tweets), started) IN
         IF r.raised THEN r
         ELSE websocket_tweet_handler(Tail(tweets), r.started)

\* twitter_twitterapio.py:501-512, the feed client hands a batch to the
\* callback
WebsocketTweetHandler ==
    /\ \E tweets \in Batches :
          ret' = [NoCall EXCEPT
                     !.op = "_websocket_tweet_handler", !.phase = "return",
                     !.result = [tweets |-> tweets] @@
                                websocket_tweet_handler(tweets, {})]
    /\ UNCHANGED <<billing_vars, tweet, agent_vars>>

InitDispatch ==
    /\ NoWatch
    /\ NoLedger
    /\ ret = NoCall
    /\ tweet = NoPost
    /\ agents \in [Range(DispatchOrder) -> DispatchAgents]
    /\ intelligence_db = [e \in Range(DispatchOrder) |-> <<>>]
    /\ handler = [h \in {} |-> None]
    /\ refine_task = [e \in {} |-> None]
    /\ stop_tasks = [e \in {} |-> None]
    /\ loops = [e \in {} |-> None]
    /\ feed = NoFeed

NextDispatch == WebsocketTweetHandler

SpecDispatch == InitDispatch /\ [][NextDispatch]_vars

\* ------------------------------------------------------ creating a Monitor
\* create_agent on its own, for every answer of the Reasoning Client and
\* every choice of the feed source.

\* answers of the Reasoning Client: six accounts (one more than is kept), two
\* accounts of which the second is never accepted, an empty account list, no
\* account list, and the empty JSON object
RulesetSix ==
    [Ruleset1 EXCEPT !.accounts = <<Name_atAb, Name_aB, Name_ba, Word_Bb,
                                    Text_aBB, Text_ab>>]
RulesetTwo == [Ruleset1 EXCEPT !.accounts = <<Name_atAb, Name_ba>>]
RulesetEmptyAccounts == [Ruleset1 EXCEPT !.accounts = <<>>]
RulesetNoAccounts == [filters |-> Ruleset1.filters]
EmptyDict == [k \in {} |-> <<>>]
CreateRulesets == {RulesetSix, RulesetTwo, RulesetEmptyAccounts,
                   RulesetNoAccounts, EmptyDict}

\* the accounts the feed source may accept
AcceptedSets == SUBSET {Name_Ab, Text_aBB, Text_ab}

CreateAnyAgent ==
    \E e \in Events, u \in Subscribers, r \in Responses(CreateRulesets),
       accepted \in AcceptedSets :
        /\ e \notin DOMAIN agents
        /\ create_agent(e, u, r, accepted)
        /\ UNCHANGED watch_vars

InitCreate ==
    /\ NoWatch
    /\ now = 0
    /\ user_balances \in [Subscribers -> AgentBalances]
    /\ usage_data = [p \in {} |-> NewEventData(0)]
    /\ fee_task = [t \in FeeTasks |-> IdleTask]
    /\ ret = NoCall
    /\ initial_balance = user_balances
    /\ call_ok = [u \in Subscribers |-> 0]
    /\ fee_ok = [u \in Subscribers |-> 0]
    /\ tweet = NoPost
    /\ agents = [e \in {} |-> None]
    /\ intelligence_db = [e \in {} |-> <<>>]
    /\ handler = [h \in HandlerTasks |-> IdleHandler]
    /\ refine_task = [e \in Events |-> [g \in 1..MaxStarts |-> NoLoop]]
    /\ stop_tasks = [e \in Events |-> NoStops]
    /\ loops = [e \in Events |-> NoLoops]
    /\ feed = NoFeed

NextCreate == CreateAnyAgent

SpecCreate == InitCreate /\ [][NextCreate]_vars

\* ------------------------------------------------------------ the digest
\* The hourly digest cycle of one active Monitor, with stop_agent.  The
\* log holds items analysed at hour 0, 1 or 2 and the clock stands at hour 2.

DIGEST_WINDOW_HOURS == 1
DigestHour == 2

\* the fields of a stored item the digest cycle reads
DigestItems == {[analyzed_at |-> t, priority |-> "low"] : t \in 0..DigestHour}
DigestLogs == {<<>>} \cup {<<i>> : i \in DigestItems}
                  \cup {<<i, j>> : i, j \in DigestItems}

\* subscriber lists and balances of the Monitor when the cycle wakes; 1.50
\* is below the affordability floor
DigestSubscribers == {<<>>, <<"u1">>, <<"u2">>, <<"u1", "u2">>}
DigestBalances == {150, 202}

\* grok_engine.py:343-381: the text of the answer, or None
synthesize_hourly_digest(response) ==
    IF response.kind = "none" THEN NoneValue ELSE response

\* agent.py:677-682 (the first definition takes items of exactly one hour
\* ago as recent)
RecentInclusive(log, t) ==
    SelectSeq(log, LAMBDA intel : intel.analyzed_at >= t - DIGEST_WINDOW_HOURS)
RecentIntelligence(log, t) ==
    SelectSeq(log, LAMBDA intel : intel.analyzed_at > t - DIGEST_WINDOW_HOURS)

\* what a step of _generate_hourly_digest did
DigestRet(e, phase, outcome, effects) ==
    AgentCall("_generate_hourly_digest", phase, e,
              [outcome |-> outcome, effects |-> effects])

\* agent.py:662: the state of the digest loop after a cycle
DigestAfterCycle(status) == IF status = "active" THEN "sleep" ELSE "done"

\* agent.py:660-709: the digest loop wakes and runs _generate_hourly_digest
\* up to the call of the Reasoning Client; an exception of the billing gate
\* is caught by the loop
generate_hourly_digest_call(e) ==
    /\ e \in DOMAIN agents
    /\ loops[e].digest_task = "sleep"
    /\ LET recent_intelligence == RecentIntelligence(intelligence_db[e], now)
       IN
       IF recent_intelligence = <<>>
       THEN /\ loops' = [loops EXCEPT ![e].digest_task =
                            DigestAfterCycle(agents[e].status)]
            /\ ret' = DigestRet(e, "return", "no_items", <<>>)
            /\ UNCHANGED <<user_balances, usage_data, agents, stop_tasks>>
       ELSE LET gate == BillingGate(e, "synthesize_digest") IN
            /\ ApplyGate(e, gate)
            /\ IF gate.outcome = "passed"
               THEN /\ loops' = [loops EXCEPT ![e].digest_task = "call"]
                    /\ ret' = DigestRet(e, "await", "synthesize", gate.effects)
               ELSE /\ loops' = [loops EXCEPT ![e].digest_task =
                                    DigestAfterCycle(agents[e].status)]
                    /\ ret' = DigestRet(e,
                                        IF gate.outcome = "raised"
                                        THEN "raise" ELSE "return",
                                        gate.outcome, gate.effects)
    /\ UNCHANGED <<now, fee_task, initial_balance, call_ok, fee_ok, tweet,
                   intelligence_db, handler, refine_task, feed>>

\* agent.py:709-716, after the Reasoning Client answered: the digest is
\* logged, sending it is left to do
generate_hourly_digest_resume(e, response) ==
    /\ e \in DOMAIN agents
    /\ loops[e].digest_task = "call"
    /\ loops' = [loops EXCEPT ![e].digest_task =
                    DigestAfterCycle(agents[e].status)]
    /\ ret' = DigestRet(e, "return",
                        IF IsNone(synthesize_hourly_digest(response))
                        THEN "failed" ELSE "digest",
                        <<>>)
    /\ UNCHANGED <<billing_vars, tweet, agents, intelligence_db, handler,
                   refine_task, stop_tasks, feed>>

GenerateHourlyDigest ==
    \E e \in Monitors : generate_hourly_digest_call(e) /\ UNCHANGED watch_vars
GenerateHourlyDigestResume ==
    \E e \in Monitors, r \in {[kind |-> "none"], [kind |-> "text"]} :
        generate_hourly_digest_resume(e, r) /\ UNCHANGED watch_vars

\* an active Monitor whose digest loop sleeps; only its creator has billing
\* tracking (add_subscriber starts none)
InitDigest ==
    /\ NoWatch
    /\ now = DigestHour
    /\ user_balances \in [Subscribers -> DigestBalances]
    /\ usage_data = [p \in {<<"u1", "e1">>} |-> NewEventData(0)]
    /\ fee_task = [t \in FeeTasks |-> IdleTask]
    /\ ret = NoCall
    /\ initial_balance = user_balances
    /\ call_ok = [u \in Subscribers |-> 0]
    /\ fee_ok = [u \in Subscribers |-> 0]
    /\ tweet = NoPost
    /\ \E subscribers \in DigestSubscribers :
          agents = [e \in Monitors |->
                       [status |-> "active", ruleset |-> Ruleset1,
                        subscribers |-> subscribers]]
    /\ intelligence_db \in [Monitors -> DigestLogs]
    /\ handler = [h \in HandlerTasks |-> IdleHandler]
    /\ refine_task = [e \in Monitors |-> [g \in 1..MaxStarts |-> NoLoop]]
    /\ stop_tasks = [e \in Monitors |-> NoStops]
    /\ loops = [e \in Monitors |-> [NoLoops EXCEPT !.digest_task = "sleep"]]
    /\ feed = [registered |-> Range(Ruleset1.accounts)]

NextDigest ==
    \/ GenerateHourlyDigest
    \/ GenerateHourlyDigestResume
    \/ StopAgent
    \/ StopAgentResume

SpecDigest == InitDigest /\ [][NextDigest]_vars

\* ------------------------------------------------------ the /watch flows
\* The commands that create, start and leave a Monitor (polydictor_bot.py,
\* bot.py) and the start of the process (run.py), with the registry on disk.
\* The process may be ended at any moment; only what save_agents wrote is
\* there when it starts again.

\* balances just below and at the minimum of charge_user_for_watch
WatchBalances == {MIN_BALANCE - 1, MIN_BALANCE}

IdleWatch == [pc |-> "idle", event |-> None]

\* what a step of a command did; started are the Monitors it called
\* start_agent for
WatchRet(op, u, e, phase, outcome, started) ==
    [AgentCall(op, phase, e, [outcome |-> outcome, started |-> started])
        EXCEPT !.user = u]

\* polydictor_bot.py:61-112: the flow ends at once for a slug the registry
\* holds, else it goes on to create_agent
process_polymarket_url_call(u, e) ==
    /\ watch_task[u].pc = "idle"
    /\ IF e \in DOMAIN agents
       THEN /\ ret' = WatchRet("process_polymarket_url", u, e, "return",
                               IF u \in Range(agents[e].subscribers)
                               THEN "already_subscribed"
                               ELSE "payment_instructions", {})
            /\ UNCHANGED watch_task
       ELSE /\ ret' = WatchRet("process_polymarket_url", u, e, "await",
                               "create", {})
            /\ watch_task' = [watch_task EXCEPT ![u] =
                                 [pc |-> "create", event |-> e]]
    /\ UNCHANGED <<billing_vars, tweet, agents, intelligence_db, handler,
                   refine_task, stop_tasks, loops, feed, subscriptions,
                   saved_agents, checked>>

\* polydictor_bot.py:122-136: create_agent returns
process_polymarket_url_create(u, response, accepted) ==
    /\ watch_task[u].pc = "create"
    /\ create_agent(watch_task[u].event, u, response, accepted)
    /\ watch_task' = [watch_task EXCEPT ![u] =
                         IF ret'.result.returned = None THEN IdleWatch
                         ELSE [@ EXCEPT !.pc = "charge"]]
    /\ saved_agents' = IF ret'.result.returned = None THEN saved_agents
                       ELSE agents'
    /\ UNCHANGED <<subscriptions, checked>>

\* payment_system.py:342-387
charge_user_for_watch(balance) == [success |-> balance >= MIN_BALANCE]

\* polydictor_bot.py:164-189: the minimum balance is checked, and when it is
\* there the user is added and the Monitor started (agent.py:280-316,
\* 932-942), with no await in between
process_polymarket_url_charge(u) ==
    LET e == watch_task[u].event
        charge_result == charge_user_for_watch(user_balances[u])
        g == loops[e].started + 1
    IN
    /\ watch_task[u].pc = "charge"
    /\ watch_task' = [watch_task EXCEPT ![u] = IdleWatch]
    /\ IF ~charge_result.success
       THEN /\ ret' = WatchRet("process_polymarket_url", u, e, "return",
                               "insufficient", {})
            /\ UNCHANGED <<agents, loops, refine_task, subscriptions,
                           saved_agents, checked>>
       ELSE /\ loops[e].started < MaxStarts
            /\ subscriptions' = Extend(subscriptions, e, u)
            /\ checked' = checked \cup {<<u, e>>}
            /\ agents' = [agents EXCEPT
                             ![e].subscribers =
                                 IF u \in Range(@) THEN @ ELSE Append(@, u),
                             ![e].status = "active"]
            /\ saved_agents' = agents'
            /\ loops' = [loops EXCEPT ![e].started = g, ![e].registered = g]
            /\ refine_task' = [refine_task EXCEPT ![e][g] = SleepingLoop]
            /\ ret' = WatchRet("process_polymarket_url", u, e, "return",
                               "activated", {e})
    /\ UNCHANGED <<billing_vars, tweet, intelligence_db, handler, stop_tasks,
                   feed>>

\* bot.py:1004-1096: AgentManager has no is_user_subscribed, so line 1031
\* raises AttributeError before create_agent and start_agent are reached
cmd_watch(u, e) ==
    /\ ret' = WatchRet("cmd_watch", u, e, "raise", "AttributeError", {})
    /\ UNCHANGED <<billing_vars, tweet, agent_vars>>

\* polydictor_bot.py:286-314; cancel_subscription looks for the key
\* user_slug, which charge_user_for_watch never writes
cmd_unwatch(u, e) ==
    /\ remove_subscriber_call(e, u)
    /\ saved_agents' = IF u \in Range(agents[e].subscribers) THEN agents'
                       ELSE saved_agents
    /\ UNCHANGED <<subscriptions, watch_task, checked>>

\* agent.py:913-930: stop_agent saves the registry last
StopAndSave(e) ==
    /\ stop_agent_resume(e)
    /\ saved_agents' = agents
    /\ UNCHANGED <<subscriptions, watch_task, checked>>

\* run.py:41-74 and agent.py:68-97 in a new process: the registry is read
\* from disk and start_agent is called for every Monitor saved as active.
\* Tasks and suspended coroutines of the process before are gone.
main ==
    LET active == {e \in DOMAIN saved_agents :
                      saved_agents[e].status = "active"}
    IN
    /\ \A e \in active : loops[e].started < MaxStarts
    /\ agents' = saved_agents
    /\ intelligence_db' = [e \in DOMAIN saved_agents |-> <<>>]
    /\ handler' = [h \in HandlerTasks |-> IdleHandler]
    /\ stop_tasks' = [e \in Monitors |-> NoStops]
    /\ watch_task' = [u \in Subscribers |-> IdleWatch]
    /\ loops' = [e \in Monitors |->
                    IF e \in active
                    THEN [loops[e] EXCEPT !.started = @ + 1,
                                          !.registered = loops[e].started + 1]
                    ELSE [loops[e] EXCEPT !.registered = 0]]
    /\ refine_task' = [e \in Monitors |-> [g \in 1..MaxStarts |->
                          IF e \in active /\ g = loops[e].started + 1
                          THEN SleepingLoop
                          ELSE IF refine_task[e][g] = NoLoop THEN NoLoop
                          ELSE [pc |-> "done", current_ruleset |-> NoneValue]]]
    /\ ret' = WatchRet("main", None, None, "return", "restarted", active)
    /\ UNCHANGED <<billing_vars, tweet, feed, subscriptions, saved_agents,
                   checked>>

WatchCommand ==
    \E u \in Subscribers, e \in Monitors :
        process_polymarket_url_call(u, e) /\ UNCHANGED loop_vars
WatchCreate ==
    \E u \in Subscribers, accepted \in {{}, FeedAccounts} :
        /\ process_polymarket_url_create(
               u, [kind |-> "json", value |-> Ruleset1], accepted)
        /\ UNCHANGED loop_vars
WatchCharge ==
    \E u \in Subscribers :
        process_polymarket_url_charge(u) /\ UNCHANGED loop_vars
BotWatch == \E u \in Subscribers, e \in Monitors : cmd_watch(u, e)
Unwatch ==
    \E u \in Subscribers, e \in Monitors :
        cmd_unwatch(u, e) /\ UNCHANGED loop_vars
StopWatched ==
    \E e \in Monitors :
        stop_agent_call(e, TRUE) /\ UNCHANGED watch_vars
StopWatchedResume ==
    \E e \in Monitors : StopAndSave(e) /\ UNCHANGED loop_vars
Restart == main /\ UNCHANGED loop_vars

InitWatch ==
    /\ now = 0
    /\ user_balances \in [Subscribers -> WatchBalances]
    /\ usage_data = [p \in {} |-> NewEventData(0)]
    /\ fee_task = [t \in FeeTasks |-> IdleTask]
    /\ ret = NoCall
    /\ initial_balance = user_balances
    /\ call_ok = [u \in Subscribers |-> 0]
    /\ fee_ok = [u \in Subscribers |-> 0]
    /\ tweet = NoPost
    /\ agents = [e \in {} |-> None]
    /\ intelligence_db = [e \in {} |-> <<>>]
    /\ handler = [h \in HandlerTasks |-> IdleHandler]
    /\ refine_task = [e \in Monitors |-> [g \in 1..MaxStarts |-> NoLoop]]
    /\ stop_tasks = [e \in Monitors |-> NoStops]
    /\ loops = [e \in Monitors |-> NoLoops]
    /\ feed = NoFeed
    /\ subscriptions = [e \in {} |-> None]
    /\ saved_agents = [e \in {} |-> None]
    /\ watch_task = [u \in Subscribers |-> IdleWatch]
    /\ checked = {}
    /\ NoFeeLoops
    /\ NoMetrics

NextWatch ==
    \/ WatchCommand
    \/ WatchCreate
    \/ WatchCharge
    \/ BotWatch
    \/ Unwatch
    \/ StopWatched
    \/ StopWatchedResume
    \/ Restart

SpecWatch == InitWatch /\ [][NextWatch]_vars

\* ------------------------------------------- refinement, await by await
\* _refine_rules after the Reasoning Client answered, with its suspensions
\* in the requests to the feed source.  A request is carried out by a
\* thread of its own as soon as it is made.  The Monitor is created and
\* started, twice at most, and never stopped.

\* what _refine_rules holds while it waits for the feed source
RefineFrame(pc, old_ruleset, refined_ruleset, outcome, effects) ==
    [pc |-> pc, current_ruleset |-> NoneValue, old_ruleset |-> old_ruleset,
     refined_ruleset |-> refined_ruleset, outcome |-> outcome,
     effects |-> effects]

\* agent.py:846-850: the metrics are replaced, the registry is saved and the
\* loop tests the status (720).  The step reports the Rulesets the cycle
\* replaced and installed and every request it sent.
refine_rules_finish(e, g, frame) ==
    /\ refine_task' = [refine_task EXCEPT ![e][g] =
                          LoopAfterCycle(agents[e].status)]
    /\ ret' = AgentCall("_refine_rules", "return", e,
                        [task |-> g, outcome |-> frame.outcome,
                         effects |-> frame.effects,
                         writes |-> {"ruleset", "last_refinement",
                                     "performance_metrics"},
                         old_ruleset |-> frame.old_ruleset,
                         refined_ruleset |-> frame.refined_ruleset])

\* agent.py:838-844: the accounts that are new are registered
refine_rules_add(e, g, frame) ==
    LET old_accounts == Range(Get(frame.old_ruleset, "accounts", <<>>))
        new_accounts == Range(Get(frame.refined_ruleset, "accounts", <<>>))
        accounts_to_add == new_accounts \ old_accounts
    IN
    IF accounts_to_add # {}
    THEN /\ feed' = add_multiple_users_to_monitor(feed, accounts_to_add)
         /\ refine_task' =
               [refine_task EXCEPT ![e][g] =
                   [frame EXCEPT !.pc = "adding",
                                 !.effects =
                                     @ \o <<FeedAddition(accounts_to_add)>>]]
         /\ ret' = RefineRet(e, g, "await", "adding",
                             <<FeedAddition(accounts_to_add)>>)
    ELSE /\ refine_rules_finish(e, g, frame)
         /\ UNCHANGED feed

\* agent.py:810-836: the Reasoning Client answered; the Ruleset and
\* last_refinement are assigned, and the accounts that are no longer named
\* are deregistered
refine_rules_install(e, g, response) ==
    /\ e \in DOMAIN agents
    /\ refine_task[e][g].pc = "call"
    /\ LET refined_ruleset ==
               refine_ruleset(refine_task[e][g].current_ruleset, response)
           old_ruleset == agents[e].ruleset
           old_accounts == Range(Get(old_ruleset, "accounts", <<>>))
           new_accounts == Range(Get(refined_ruleset, "accounts", <<>>))
           accounts_to_remove == old_accounts \ new_accounts
           outcome == IF response.kind = "json" THEN "refined" ELSE "failed"
           frame == RefineFrame("call", old_ruleset, refined_ruleset,
                                outcome, <<>>)
       IN
       IF Falsy(refined_ruleset)
       THEN /\ ret' = RefineRet(e, g, "return", outcome, <<>>)
            /\ refine_task' = [refine_task EXCEPT ![e][g] =
                                  LoopAfterCycle(agents[e].status)]
            /\ UNCHANGED <<agents, feed>>
       ELSE /\ agents' = [agents EXCEPT ![e].ruleset = refined_ruleset]
            /\ IF accounts_to_remove # {}
               THEN /\ feed' = remove_multiple_users_from_monitor(
                                   feed, accounts_to_remove)
                    /\ refine_task' =
                          [refine_task EXCEPT ![e][g] =
                              [frame EXCEPT
                                  !.pc = "removing",
                                  !.effects =
                                      <<FeedRemoval(accounts_to_remove)>>]]
                    /\ ret' = RefineRet(e, g, "await", "removing",
                                        <<FeedRemoval(accounts_to_remove)>>)
               ELSE refine_rules_add(e, g, frame)
    /\ UNCHANGED <<billing_vars, tweet, intelligence_db, handler, stop_tasks,
                   loops>>

\* agent.py:833-844: the deregistration returned
refine_rules_removed(e, g) ==
    /\ e \in DOMAIN agents
    /\ refine_task[e][g].pc = "removing"
    /\ refine_rules_add(e, g, refine_task[e][g])
    /\ UNCHANGED <<billing_vars, tweet, agents, intelligence_db, handler,
                   stop_tasks, loops>>

\* agent.py:841-850: the registration returned
refine_rules_added(e, g) ==
    /\ e \in DOMAIN agents
    /\ refine_task[e][g].pc = "adding"
    /\ refine_rules_finish(e, g, refine_task[e][g])
    /\ UNCHANGED <<billing_vars, tweet, agents, intelligence_db, handler,
                   stop_tasks, loops, feed>>

RefineInstall ==
    \E e \in Monitors, g \in 1..MaxStarts, r \in Responses(Rulesets) :
        refine_rules_install(e, g, r) /\ UNCHANGED watch_vars
RefineRemoved ==
    \E e \in Monitors, g \in 1..MaxStarts :
        refine_rules_removed(e, g) /\ UNCHANGED watch_vars
RefineAdded ==
    \E e \in Monitors, g \in 1..MaxStarts :
        refine_rules_added(e, g) /\ UNCHANGED watch_vars

NextRefine ==
    \/ CreateAgent
    \/ StartAgent
    \/ RefineRules
    \/ RefineInstall
    \/ RefineRemoved
    \/ RefineAdded

SpecRefine == InitAgent /\ [][NextRefine]_vars

\* ------------------------------------------------- the shared feed source
\* Two Monitors at the one feed-source client (agent.py:73), each created
\* for the same account.

SharedMonitors == {"e1", "e2"}

SharedCreate ==
    \E e \in SharedMonitors, u \in Creators :
        /\ e \notin DOMAIN agents
        /\ create_agent(e, u, [kind |-> "json", value |-> Ruleset1],
                        FeedAccounts)
        /\ UNCHANGED watch_vars
SharedStart ==
    \E e \in SharedMonitors : start_agent(e) /\ UNCHANGED watch_vars
SharedStop ==
    \E e \in SharedMonitors, scheduled \in BOOLEAN :
        stop_agent_call(e, scheduled) /\ UNCHANGED watch_vars
SharedStopResume ==
    \E e \in SharedMonitors : stop_agent_resume(e) /\ UNCHANGED watch_vars
SharedRefine ==
    \E e \in SharedMonitors, g \in 1..MaxStarts :
        refine_rules_call(e, g) /\ UNCHANGED watch_vars
SharedRefineResume ==
    \E e \in SharedMonitors, g \in 1..MaxStarts, r \in Responses(Rulesets) :
        refine_rules_resume(e, g, r) /\ UNCHANGED watch_vars

InitShared ==
    /\ NoWatch
    /\ now = 0
    /\ user_balances \in [Subscribers -> AgentBalances]
    /\ usage_data = [p \in {} |-> NewEventData(0)]
    /\ fee_task = [t \in FeeTasks |-> IdleTask]
    /\ ret = NoCall
    /\ initial_balance = user_balances
    /\ call_ok = [u \in Subscribers |-> 0]
    /\ fee_ok = [u \in Subscribers |-> 0]
    /\ tweet = NoPost
    /\ agents = [e \in {} |-> None]
    /\ intelligence_db = [e \in {} |-> <<>>]
    /\ handler = [h \in HandlerTasks |-> IdleHandler]
    /\ refine_task = [e \in SharedMonitors |-> [g \in 1..MaxStarts |-> NoLoop]]
    /\ stop_tasks = [e \in SharedMonitors |-> NoStops]
    /\ loops = [e \in SharedMonitors |-> NoLoops]
    /\ feed = NoFeed

NextShared ==
    \/ SharedCreate
    \/ SharedStart
    \/ SharedStop
    \/ SharedStopResume
    \/ SharedRefine
    \/ SharedRefineResume

SpecShared == InitShared /\ [][NextShared]_vars

\* ------------------------------------------------------ the daily-fee loop
\* _daily_fee_scheduler next to the /watch flows, the stop_agent tasks and
\* the restart of the process.  Loop g of a Monitor is the one its g-th
\* start_agent created; it sleeps a day, checks the fee of each subscriber
\* and calls stop_agent itself when the list is empty.

\* agent.py:738, in hours
FEE_LOOP_SLEEP_HOURS == 24
MaxFeeTime == 24

\* the frame of a loop: wake is the hour its sleep ends, rest the
\* subscribers of the copied list not dealt with yet, balance and read_at
\* what check_and_charge_daily_fee read before it awaited the transfer
NoFeeLoop == [pc |-> "none", wake |-> 0, rest |-> <<>>, balance |-> 0,
              read_at |-> 0]
DoneFeeLoop == [NoFeeLoop EXCEPT !.pc = "done"]
SleepingFeeLoop(t) ==
    [NoFeeLoop EXCEPT !.pc = "sleep", !.wake = t + FEE_LOOP_SLEEP_HOURS]

\* agent.py:735: the test of the while loop
FeeLoopAfterCycle(status, t) ==
    IF status = "active" THEN SleepingFeeLoop(t) ELSE DoneFeeLoop

\* agent.py:311-314 and 922-924: start_agent creates a loop; the loop
\* stop_agent cancels gets CancelledError where it is suspended and leaves
\* (776-777).  before and after are the task dicts around the step.
FeeLoopsAfter(before, after, t) ==
    [e \in Monitors |-> [g \in 1..MaxStarts |->
        IF before[e].started < g /\ g <= after[e].started
        THEN SleepingFeeLoop(t)
        ELSE IF g \in after[e].cancelled \ before[e].cancelled
                /\ fee_loop[e][g].pc # "none"
        THEN DoneFeeLoop
        ELSE fee_loop[e][g]]]

\* run.py:41-74: the loops of the process before are gone
FeeLoopsAfterRestart(before, after, t) ==
    [e \in Monitors |-> [g \in 1..MaxStarts |->
        IF before[e].started < g /\ g <= after[e].started
        THEN SleepingFeeLoop(t)
        ELSE IF fee_loop[e][g].pc = "none" THEN NoFeeLoop
        ELSE DoneFeeLoop]]

\* what a step of the loop did outside stop_agent
FeeLoopRet(e, g, phase, outcome, effects) ==
    AgentCall("_daily_fee_scheduler", phase, e,
              [task |-> g, outcome |-> outcome, effects |-> effects])

\* what a step of the stop_agent the loop called did
LoopStopRet(e, g, phase, step, effects) ==
    AgentCall("stop_agent", phase, e,
              [step |-> step, effects |-> effects, task |-> g])

\* usage_billing.py:176-186: the subscribers from the first one on whose fee
\* is due; check_and_charge_daily_fee returns at once for those before
RECURSIVE FromFirstDue(_, _, _)
FromFirstDue(e, rest, t) ==
    IF rest = <<>> THEN <<>>
    ELSE IF \/ ~HasTracking(Head(rest), e)
            \/ NotYetDue(usage_data[<<Head(rest), e>>].last_billing_cycle, t)
    THEN FromFirstDue(e, Tail(rest), t)
    ELSE rest

\* agent.py:913-930 inside the loop: the tasks the dicts hold are cancelled.
\* When the loop is one of them it has cancelled itself: delete_stream_rule
\* suspends in its request (twitter_stream.py:189-193), CancelledError is
\* raised there, passes the `except Exception` of delete_stream_rule and of
\* nothing else in stop_agent, and ends the loop at 776-777; save_agents is
\* not reached.
loop_stop_agent_cancel(e, g, effects) ==
    /\ CancelTasks(e)
    /\ IF loops[e].registered = g
       THEN /\ fee_loop' = [FeeLoopsAfter(loops, loops', now')
                               EXCEPT ![e][g] = DoneFeeLoop]
            /\ ret' = LoopStopRet(e, g, "raise", "CancelledError", effects)
       ELSE /\ fee_loop' = [FeeLoopsAfter(loops, loops', now')
                               EXCEPT ![e][g].pc = "deleting"]
            /\ ret' = LoopStopRet(e, g, "await", "delete_stream_rule",
                                  effects)

\* agent.py:771-774 and 894-911: the loop calls stop_agent
loop_stop_agent(e, g) ==
    LET accounts == Get(agents[e].ruleset, "accounts", <<>>) IN
    /\ agents' = [agents EXCEPT ![e].status = "stopped"]
    /\ IF accounts # <<>>
       THEN /\ feed' = remove_multiple_users_from_monitor(feed,
                                                           Range(accounts))
            /\ fee_loop' = [fee_loop EXCEPT ![e][g].pc = "removing",
                                            ![e][g].rest = <<>>]
            /\ ret' = LoopStopRet(e, g, "await", "call",
                                  <<FeedRemoval(Range(accounts))>>)
            /\ UNCHANGED <<loops, refine_task>>
       ELSE /\ loop_stop_agent_cancel(e, g, <<>>)
            /\ UNCHANGED feed
    /\ UNCHANGED stop_tasks

\* agent.py:741-779: the pass over the copied list from `rest` on, at hour t
\* with the balances bal, up to the next suspension.  A subscriber who
\* cannot pay is removed by _notify_low_balance_and_pause, whose TypeError
\* (892) the loop catches at 778.
fee_pass(e, g, rest, t, bal) ==
    LET due == FromFirstDue(e, rest, t) IN
    IF due = <<>>
    THEN IF agents[e].subscribers = <<>>
         THEN loop_stop_agent(e, g)
         ELSE /\ fee_loop' = [fee_loop EXCEPT ![e][g] =
                                 FeeLoopAfterCycle(agents[e].status, t)]
              /\ ret' = FeeLoopRet(e, g, "return", "cycle", <<>>)
              /\ UNCHANGED <<agents, stop_tasks, loops, refine_task, feed>>
    ELSE IF CannotPayFee(bal[Head(due)])
    THEN LET r == notify_low_balance_and_pause(
                      agents[e], Head(due),
                      [charged |-> FALSE, should_stop |-> TRUE])
         IN
         /\ r.stop_created => StopBudget(e)
         /\ agents' = [agents EXCEPT ![e] = r.agent]
         /\ stop_tasks' = [stop_tasks EXCEPT ![e].created =
                              IF r.stop_created THEN @ + 1 ELSE @]
         /\ fee_loop' = [fee_loop EXCEPT ![e][g] =
                            FeeLoopAfterCycle(agents[e].status, t)]
         /\ ret' = FeeLoopRet(e, g, "return", "TypeError", r.effects)
         /\ UNCHANGED <<loops, refine_task, feed>>
    ELSE /\ fee_loop' = [fee_loop EXCEPT ![e][g] =
                            [pc |-> "charging", wake |-> 0, rest |-> due,
                             balance |-> bal[Head(due)], read_at |-> t]]
         /\ ret' = FeeLoopRet(e, g, "await", "transfer", <<>>)
         /\ UNCHANGED <<agents, stop_tasks, loops, refine_task, feed>>

\* no loop is due to wake before hour t
NoEarlierWake(t) ==
    \A e \in Monitors, g \in 1..MaxStarts :
        fee_loop[e][g].pc = "sleep" => fee_loop[e][g].wake >= t

\* agent.py:735-741: the sleep of loop g ends
fee_loop_wake(e, g) ==
    LET t == IF fee_loop[e][g].wake > now THEN fee_loop[e][g].wake ELSE now
    IN
    /\ fee_loop[e][g].pc = "sleep"
    /\ NoEarlierWake(fee_loop[e][g].wake)
    /\ t <= MaxFeeTime
    /\ now' = t
    /\ fee_pass(e, g, agents[e].subscribers, t, user_balances)
    /\ UNCHANGED <<user_balances, usage_data, fee_task, initial_balance,
                   call_ok, fee_ok, tweet, intelligence_db, handler,
                   subscriptions, saved_agents, watch_task, checked,
                   metric_vars>>

\* usage_billing.py:201-247 and agent.py:746-764: the transfer of the fee
\* returned; the pass goes on with the next subscriber
fee_loop_transferred(e, g, transfer_success) ==
    LET frame == fee_loop[e][g]
        u == Head(frame.rest)
    IN
    /\ frame.pc = "charging"
    /\ now' = now
    /\ IF transfer_success
       THEN /\ usage_data' = [usage_data EXCEPT ![<<u, e>>] =
                                 ChargeDay(@, frame.read_at)]
            /\ user_balances' = [user_balances EXCEPT ![u] =
                                    FeeDebit(frame.balance)]
            /\ fee_ok' = [fee_ok EXCEPT ![u] = @ + 1]
            /\ fee_pass(e, g, Tail(frame.rest), now, user_balances')
       ELSE LET r == notify_low_balance_and_pause(
                         agents[e], u,
                         [charged |-> FALSE, should_stop |-> TRUE])
            IN
            /\ r.stop_created => StopBudget(e)
            /\ agents' = [agents EXCEPT ![e] = r.agent]
            /\ stop_tasks' = [stop_tasks EXCEPT ![e].created =
                                 IF r.stop_created THEN @ + 1 ELSE @]
            /\ fee_loop' = [fee_loop EXCEPT ![e][g] =
                               FeeLoopAfterCycle(agents[e].status, now)]
            /\ ret' = FeeLoopRet(e, g, "return", "TypeError", r.effects)
            /\ UNCHANGED <<user_balances, usage_data, fee_ok, loops,
                           refine_task, feed>>
    /\ UNCHANGED <<fee_task, initial_balance, call_ok, tweet,
                   intelligence_db, handler, subscriptions, saved_agents,
                   watch_task, checked, metric_vars>>

\* agent.py:908-927: the feed source answered the stop_agent of the loop
loop_stop_agent_removed(e, g) ==
    /\ fee_loop[e][g].pc = "removing"
    /\ now' = now
    /\ loop_stop_agent_cancel(e, g, <<>>)
    /\ UNCHANGED <<user_balances, usage_data, fee_task, initial_balance,
                   call_ok, fee_ok, tweet, agents, intelligence_db, handler,
                   stop_tasks, feed, subscriptions, saved_agents, watch_task,
                   checked, metric_vars>>

\* agent.py:927-930 and 774: delete_stream_rule returned, the registry is
\* saved and the loop leaves
loop_stop_agent_deleted(e, g) ==
    /\ fee_loop[e][g].pc = "deleting"
    /\ fee_loop' = [fee_loop EXCEPT ![e][g] = DoneFeeLoop]
    /\ saved_agents' = agents
    /\ ret' = LoopStopRet(e, g, "return", "resume", <<>>)
    /\ UNCHANGED <<billing_vars, tweet, agents, intelligence_db, handler,
                   refine_task, stop_tasks, loops, feed, subscriptions,
                   watch_task, checked, metric_vars>>

FeeLoopWake == \E e \in Monitors, g \in 1..MaxStarts : fee_loop_wake(e, g)
FeeLoopTransferred ==
    \E e \in Monitors, g \in 1..MaxStarts, ok \in BOOLEAN :
        fee_loop_transferred(e, g, ok)
LoopStopRemoved ==
    \E e \in Monitors, g \in 1..MaxStarts : loop_stop_agent_removed(e, g)
LoopStopDeleted ==
    \E e \in Monitors, g \in 1..MaxStarts : loop_stop_agent_deleted(e, g)

\* the steps of SpecWatch that create or cancel tasks, with the loops
FeeLoopsFollow ==
    /\ fee_loop' = FeeLoopsAfter(loops, loops', now)
    /\ UNCHANGED metric_vars
WatchChargeLoops ==
    \E u \in Subscribers : process_polymarket_url_charge(u) /\ FeeLoopsFollow
StopWatchedLoops ==
    \E e \in Monitors :
        /\ stop_agent_call(e, TRUE)
        /\ FeeLoopsFollow
        /\ UNCHANGED <<subscriptions, saved_agents, watch_task, checked>>
StopWatchedResumeLoops == \E e \in Monitors : StopAndSave(e) /\ FeeLoopsFollow
RestartLoops ==
    /\ main
    /\ fee_loop' = FeeLoopsAfterRestart(loops, loops', now)
    /\ UNCHANGED metric_vars

InitFeeLoop ==
    /\ now = 0
    /\ user_balances \in [Subscribers -> WatchBalances]
    /\ usage_data = [p \in {} |-> NewEventData(0)]
    /\ fee_task = [t \in FeeTasks |-> IdleTask]
    /\ ret = NoCall
    /\ initial_balance = user_balances
    /\ call_ok = [u \in Subscribers |-> 0]
    /\ fee_ok = [u \in Subscribers |-> 0]
    /\ tweet = NoPost
    /\ agents = [e \in {} |-> None]
    /\ intelligence_db = [e \in {} |-> <<>>]
    /\ handler = [h \in HandlerTasks |-> IdleHandler]
    /\ refine_task = [e \in Monitors |-> [g \in 1..MaxStarts |-> NoLoop]]
    /\ stop_tasks = [e \in Monitors |-> NoStops]
    /\ loops = [e \in Monitors |-> NoLoops]
    /\ feed = NoFeed
    /\ subscriptions = [e \in {} |-> None]
    /\ saved_agents = [e \in {} |-> None]
    /\ watch_task = [u \in Subscribers |-> IdleWatch]
    /\ checked = {}
    /\ fee_loop = [e \in Monitors |-> [g \in 1..MaxStarts |-> NoFeeLoop]]
    /\ NoMetrics

NextFeeLoop ==
    \/ WatchCommand
    \/ WatchCreate
    \/ WatchChargeLoops
    \/ Unwatch
    \/ StopWatchedLoops
    \/ StopWatchedResumeLoops
    \/ RestartLoops
    \/ FeeLoopWake
    \/ FeeLoopTransferred
    \/ LoopStopRemoved
    \/ LoopStopDeleted

SpecFeeLoop == InitFeeLoop /\ [][NextFeeLoop]_vars

\* ---------------------------------------------------- the metrics dicts
\* AgentManager.performance_metrics holds one dict per Monitor.  A dict is
\* an object: _handle_tweet binds the one held at its start to `metrics` and
\* writes through that name after its awaits, _refine_rules puts a new dict
\* in the Monitor's place.

MaxPosts == 2
MaxDicts == 3

\* agent.py:265-278, the counters of a new dict (an empty dict counts alike:
\* both counters are read with .get(key, 0))
init_metrics == [total_tweets |-> 0, relevant_tweets |-> 0]

NothingSince == [started |-> 0, stored |-> 0]

\* agent.py:254 and 847: a new dict takes the Monitor's place
ResetMetrics(e) ==
    /\ Len(metrics_objects) < MaxDicts
    /\ metrics_objects' = Append(metrics_objects, init_metrics)
    /\ performance_metrics' =
          [x \in DOMAIN performance_metrics \cup {e} |->
              IF x = e THEN Len(metrics_objects) + 1
              ELSE performance_metrics[x]]
    /\ since_reset' = [x \in DOMAIN since_reset \cup {e} |->
                          IF x = e THEN NothingSince ELSE since_reset[x]]
    /\ UNCHANGED metrics_ref

\* agent.py:363-364: `metrics` is the dict held for the Monitor, or a dict
\* of its own when none is held, and its total goes up by one
CountPost(h, e) ==
    LET held == e \in DOMAIN performance_metrics
        dicts == IF held THEN metrics_objects
                 ELSE Append(metrics_objects, init_metrics)
        d == IF held THEN performance_metrics[e] ELSE Len(dicts)
    IN
    /\ Len(dicts) <= MaxDicts
    /\ since_reset[e].started < MaxPosts
    /\ metrics_ref' = [metrics_ref EXCEPT ![h] = d]
    /\ metrics_objects' = [dicts EXCEPT ![d].total_tweets = @ + 1]
    /\ since_reset' = [since_reset EXCEPT ![e].started = @ + 1]
    /\ UNCHANGED performance_metrics

\* agent.py:491: the relevant count of `metrics` goes up by one
CountRelevant(h, e) ==
    /\ metrics_objects' = [metrics_objects EXCEPT
                              ![metrics_ref[h]].relevant_tweets = @ + 1]
    /\ since_reset' = [since_reset EXCEPT ![e].stored = @ + 1]
    /\ UNCHANGED <<performance_metrics, metrics_ref>>

watch_only == <<subscriptions, saved_agents, watch_task, checked, fee_loop>>

MetricsCreate ==
    \E e \in Monitors, u \in Creators :
        /\ e \notin DOMAIN agents
        /\ create_agent(e, u, [kind |-> "json", value |-> Ruleset1],
                        FeedAccounts)
        /\ ResetMetrics(e)
        /\ UNCHANGED watch_only
MetricsStart ==
    \E e \in Monitors : start_agent(e) /\ UNCHANGED watch_vars
MetricsHandleTweet ==
    \E h \in HandlerTasks, e \in Monitors, t \in AgentPosts :
        /\ handle_tweet_call(h, e, t)
        /\ IF "total_tweets" \in ret'.result.metrics
           THEN CountPost(h, e)
           ELSE UNCHANGED metric_vars
        /\ UNCHANGED watch_only
MetricsHandleTweetResume ==
    \E h \in HandlerTasks, r \in Responses(Analyses) :
        /\ handle_tweet_resume(h, r)
        /\ IF "relevant_tweets" \in ret'.result.metrics
           THEN CountRelevant(h, ret'.event)
           ELSE UNCHANGED metric_vars
        /\ UNCHANGED watch_only
MetricsRefine ==
    \E e \in Monitors, g \in 1..MaxStarts :
        refine_rules_call(e, g) /\ UNCHANGED watch_vars
MetricsRefineResume ==
    \E e \in Monitors, g \in 1..MaxStarts, r \in Responses(Rulesets) :
        /\ refine_rules_resume(e, g, r)
        /\ IF "performance_metrics" \in ret'.result.writes
           THEN ResetMetrics(e)
           ELSE UNCHANGED metric_vars
        /\ UNCHANGED watch_only

InitMetrics ==
    /\ now = 0
    /\ user_balances \in [Subscribers -> AgentBalances]
    /\ usage_data = [p \in {} |-> NewEventData(0)]
    /\ fee_task = [t \in FeeTasks |-> IdleTask]
    /\ ret = NoCall
    /\ initial_balance = user_balances
    /\ call_ok = [u \in Subscribers |-> 0]
    /\ fee_ok = [u \in Subscribers |-> 0]
    /\ tweet = NoPost
    /\ agents = [e \in {} |-> None]
    /\ intelligence_db = [e \in {} |-> <<>>]
    /\ handler = [h \in HandlerTasks |-> IdleHandler]
    /\ refine_task = [e \in Monitors |-> [g \in 1..MaxStarts |-> NoLoop]]
    /\ stop_tasks = [e \in Monitors |-> NoStops]
    /\ loops = [e \in Monitors |-> NoLoops]
    /\ feed = NoFeed
    /\ subscriptions = [e \in {} |-> None]
    /\ saved_agents = [e \in {} |-> None]
    /\ watch_task = [u \in {} |-> None]
    /\ checked = {}
    /\ NoFeeLoops
    /\ performance_metrics = [e \in {} |-> 0]
    /\ metrics_objects = <<>>
    /\ metrics_ref = [h \in HandlerTasks |-> 0]
    /\ since_reset = [e \in {} |-> NothingSince]

NextMetrics ==
    \/ MetricsCreate
    \/ MetricsStart
    \/ MetricsHandleTweet
    \/ MetricsHandleTweetResume
    \/ MetricsRefine
    \/ MetricsRefineResume

SpecMetrics == InitMetrics /\ [][NextMetrics]_vars

\* ------------------------------------------------------------ properties

RECURSIVE SumOver(_, _)
SumOver(f, keys) ==
    IF keys = {} THEN 0
    ELSE LET k == CHOOSE x \in keys : TRUE IN f[k] + SumOver(f, keys \ {k})

\* per-type counter of a call type (0 when the stats dict has no such key)
PerType(event_data, c) ==
    IF c \in DOMAIN event_data.grok_calls THEN event_data.grok_calls[c] ELSE 0

\* sum of the costs of the charges that reported success
Paid(u) == call_ok[u] * GROK_COST_PER_CALL + fee_ok[u] * TWITTER_API_DAILY_FEE

\* this step is a call of check_and_charge_daily_fee (not its resumption)
FeeCallStep ==
    /\ ret'.op = "check_and_charge_daily_fee"
    /\ fee_task[ret'.event].pc = "idle"

\* this step is the resumption of check_and_charge_daily_fee after the transfer
FeeResumeStep ==
    /\ ret'.op = "check_and_charge_daily_fee"
    /\ fee_task[ret'.event].pc = "transfer"

\* C1: the stored balance of every subscriber is >= 0 in every reachable
\* state, whatever record_grok_call and check_and_charge_daily_fee calls ran
\* and however they interleaved.
C1_BalanceNeverNegative == \A u \in Users : user_balances[u] >= 0

\* both kinds of charge were applied and took the balance down to exactly 0
C1_Witness ==
    \E u \in Users : call_ok[u] > 0 /\ fee_ok[u] > 0 /\ user_balances[u] = 0

\* C2: the costs of the charges that reported success never add up to more
\* than the subscriber's initial balance.
C2_NoOverdraft == \A u \in Users : Paid(u) <= initial_balance[u]

C4_FailureSignalsPause ==
    [][(ret'.op = "record_grok_call" /\ ~ret'.result.success) =>
          /\ UNCHANGED <<user_balances, usage_data, call_ok>>
          /\ Flag(ret'.result, "should_pause")]_vars

\* C5: a successful record_grok_call debits exactly one call cost and adds
\* one to the per-type counter of its call type and to the total counter, so
\* the total counter equals the sum of the per-type counters.
C5_CountersAgree ==
    [][(ret'.op = "record_grok_call" /\ ret'.result.success) =>
          LET u == ret'.user
              p == <<ret'.user, ret'.event>>
          IN /\ user_balances'[u] = user_balances[u] - GROK_COST_PER_CALL
             /\ usage_data'[p].total_grok_calls
                  = usage_data[p].total_grok_calls + 1
             /\ PerType(usage_data'[p], ret'.call_type)
                  = PerType(usage_data[p], ret'.call_type) + 1
             /\ usage_data'[p].total_grok_calls
                  = SumOver(usage_data'[p].grok_calls,
                            DOMAIN usage_data'[p].grok_calls)]_vars

\* C6: check_and_charge_daily_fee called less than 24h after
\* last_billing_cycle returns charged = FALSE without a stop signal, calls no
\* transfer and leaves balance, last_billing_cycle and counters unchanged.
C6_NotDueIsNoOp ==
    [][(/\ FeeCallStep
        /\ HasTracking(ret'.user, ret'.event)
        /\ now - usage_data[<<ret'.user, ret'.event>>].last_billing_cycle
             < BILLING_PERIOD_HOURS) =>
          /\ ret'.phase = "return"
          /\ ~ret'.result.charged
          /\ ~Flag(ret'.result, "should_stop")
          /\ UNCHANGED billing_vars]_vars

\* a fee check came too early for a subscriber who could have paid the fee
C6_Witness ==
    /\ ret.op = "check_and_charge_daily_fee"
    /\ ret.phase = "return"
    /\ HasTracking(ret.user, ret.event)
    /\ now - usage_data[<<ret.user, ret.event>>].last_billing_cycle
         \in 1..(BILLING_PERIOD_HOURS - 1)
    /\ user_balances[ret.user] >= TWITTER_API_DAILY_FEE
    /\ ~ret.result.charged

\* C7: when the fee is due and the balance is below the fee,
\* check_and_charge_daily_fee returns charged = FALSE with should_stop = TRUE,
\* calls no transfer, debits nothing and does not advance last_billing_cycle.
C7_DueButInsolvent ==
    [][(/\ FeeCallStep
        /\ HasTracking(ret'.user, ret'.event)
        /\ now - usage_data[<<ret'.user, ret'.event>>].last_billing_cycle
             >= BILLING_PERIOD_HOURS
        /\ user_balances[ret'.user] < TWITTER_API_DAILY_FEE) =>
          /\ ret'.phase = "return"
          /\ ~ret'.result.charged
          /\ Flag(ret'.result, "should_stop")
          /\ UNCHANGED billing_vars]_vars

\* a due fee check met a balance below the fee and asked to stop
C7_Witness ==
    /\ ret.op = "check_and_charge_daily_fee"
    /\ ret.phase = "return"
    /\ HasTracking(ret.user, ret.event)
    /\ now - usage_data[<<ret.user, ret.event>>].last_billing_cycle
         >= BILLING_PERIOD_HOURS
    /\ user_balances[ret.user] < TWITTER_API_DAILY_FEE
    /\ Flag(ret.result, "should_stop")

\* C8: a successful daily-fee charge takes exactly one flat fee off the
\* stored balance and advances last_billing_cycle to the charge time, at
\* least 24h after the previous cycle of that (subscriber, monitor) pair.
C8_ChargesOneFeePerDay ==
    [][(FeeResumeStep /\ ret'.result.charged) =>
          LET u == ret'.user
              p == <<ret'.user, ret'.event>>
          IN /\ user_balances'[u] = user_balances[u] - TWITTER_API_DAILY_FEE
             /\ usage_data'[p].last_billing_cycle = fee_task[ret'.event].now
             /\ usage_data'[p].last_billing_cycle
                  - usage_data[p].last_billing_cycle
                  >= BILLING_PERIOD_HOURS]_vars

SkipTable(t) ==
    \/ t.isAutomated
    \/ t.followers < 100
    \/ /\ ~(t.likeCount + t.retweetCount + t.replyCount = 0
            /\ t.followers < 10000)
       /\ \/ t.retweeted_tweet /\ t.followers < 50000
          \/ t.isReply /\ ~t.isBlueVerified /\ t.followers < 10000

ClaimedMatch(node, t) ==
    LET author == lstrip(lower(t.userName), "@")
        account == lstrip(lower(Get(node, "account", <<>>)), "@")
        keywords == Get(node, "keywords", <<>>)
        some_keyword ==
            \E i \in DOMAIN keywords : Contains(lower(keywords[i]), lower(t.text))
    IN
    \/ node.type = "account_specific" /\ author = account /\ some_keyword
    \/ node.type = "account_any" /\ author = account
    \/ /\ node.type = "keyword_critical"
       /\ t.followers >= Get(node, "min_followers", 0)
       /\ some_keyword
    \/ /\ node.type = "breaking_news"
       /\ (~Get(node, "verified_only", TRUE) \/ t.isBlueVerified)
       /\ some_keyword

\* C11: _check_priority_node scans priority_nodes in list order and returns
\* the reason of the first node that matches (account_specific: author is the
\* account and some keyword in the text; account_any: author is the account;
\* keyword_critical: followers >= min_followers and some keyword;
\* breaking_news: (not verified_only or verified) and some keyword); it
\* returns (false, empty) iff no node matches.
C11_FirstMatchWins ==
    [][ret'.op = "_check_priority_node" =>
          LET nodes == Get(agents[ret'.event].ruleset, "priority_nodes", <<>>)
              M == {i \in DOMAIN nodes : ClaimedMatch(nodes[i], tweet)}
          IN /\ ret'.result.is_priority <=> (M # {})
             /\ M # {} =>
                  \E i \in M : /\ \A j \in M : i <= j
                               /\ ret'.result.reason = NodeReason(nodes[i])
             /\ M = {} => ret'.result.reason = ""
             /\ UNCHANGED <<billing_vars, tweet, agent_vars>>]_vars

\* two nodes with different reasons both match the post, the second one only
\* because the follower count equals min_followers, and the first one's
\* reason came back
C11_Witness ==
    /\ ret.op = "_check_priority_node"
    /\ LET nodes == Get(agents["e1"].ruleset, "priority_nodes", <<>>) IN
       /\ Len(nodes) = 2
       /\ nodes[1].type = "breaking_news"
       /\ nodes[2].type = "keyword_critical"
       /\ tweet.followers = nodes[2].min_followers
       /\ ClaimedMatch(nodes[1], tweet)
       /\ ClaimedMatch(nodes[2], tweet)
       /\ ret.result.is_priority
       /\ ret.result.reason = NodeReason(nodes[1])
       /\ ret.result.reason # NodeReason(nodes[2])

\* an item was appended to the log of Monitor e by this step
Appended(e) ==
    /\ e \in DOMAIN intelligence_db
    /\ Len(intelligence_db'[e]) = Len(intelligence_db[e]) + 1

\* the item this step appended to the log of Monitor e
NewItem(e) == intelligence_db'[e][Len(intelligence_db'[e])]

\* the outcomes in which a classified post is dropped by the thresholds
ThresholdOutcomes == {"not_relevant", "low_relevance", "low_credibility"}

\* C12: a post that matches a priority node is never discarded by the
\* pre-filter or by the relevance/credibility thresholds, and every item
\* stored for it has priority = high.
C12_PriorityBypass ==
    [][/\ ret'.op = "_handle_tweet"
       /\ handler[ret'.result.task].pc # "idle"
       /\ handler[ret'.result.task].is_priority_node
       => /\ ret'.result.outcome \notin ThresholdOutcomes \cup {"prefiltered"}
          /\ Appended(ret'.event) => NewItem(ret'.event).priority = "high"]_vars

\* C13: when the Ruleset was replaced while _handle_tweet was suspended in its
\* classification call, the thresholds applied to the classification are those
\* of the Ruleset the execution began under: the item is stored exactly when
\* it passes that Ruleset's thresholds.
C13_SnapshotThresholds ==
    [][/\ ret'.op = "_handle_tweet"
       /\ handler[ret'.result.task].pc = "classify"
       /\ ~IsNone(ret'.result.analysis)
       /\ handler[ret'.result.task].ruleset # agents[ret'.event].ruleset
       => LET verdict == Verdict(ret'.result.analysis,
                                 handler[ret'.result.task].ruleset)
          IN /\ ret'.result.outcome = verdict
             /\ Appended(ret'.event) <=> verdict = "stored"]_vars

\* C14: a call of stop_agent for a Monitor that is already stopped changes
\* nothing: it sends no further deregistration to the feed source and cancels
\* no loop again.
C14_IdempotentStop ==
    [][/\ ret'.op = "stop_agent"
       /\ ret'.result.step = "call"
       /\ agents[ret'.event].status = "stopped"
       => /\ ret'.result.effects = <<>>
          /\ UNCHANGED <<agents, feed, loops, refine_task>>]_vars

\* C15: once the status of a Monitor is stopped, no step changes it.
C15_StoppedIsFinal ==
    [][\A e \in DOMAIN agents :
          agents[e].status = "stopped" => agents'[e].status = "stopped"]_vars

\* C16: a refinement cycle whose Reasoning Client call failed or returned
\* unparseable output leaves the Ruleset as it was and registers or
\* deregisters no account at the feed source.
C16_FailedRefinementKeepsRuleset ==
    [][/\ ret'.op = "_refine_rules"
       /\ ret'.result.outcome = "failed"
       => /\ agents'[ret'.event].ruleset = agents[ret'.event].ruleset
          /\ ret'.result.effects = <<>>
          /\ feed' = feed]_vars

\* C17: no item is appended for a post for which a classification call failed
\* or returned unparseable output.
C17_NoItemAfterFailedClassification ==
    [][/\ ret'.op = "_handle_tweet"
       /\ Appended(ret'.event)
       => /\ ~handler[ret'.result.task].failed
          /\ ~IsNone(ret'.result.analysis)]_vars

\* record_grok_call would refuse subscriber u of Monitor e
GateFails(e, u) ==
    ~charge_grok_call(user_balances, usage_data, u, e,
                      "analyze_tweet").result.success

\* the step notified subscriber u of a low balance
Notified(effects, u) ==
    \E i \in DOMAIN effects : effects[i].kind = "notify" /\ effects[i].user = u

\* C18: when _handle_tweet runs the billing gate for a Monitor with several
\* subscribers of which some fail and some pass, every failing subscriber is
\* notified and removed, every passing subscriber stays, and the execution
\* goes on to the classification call.
C18_GateKeepsPayers ==
    [][/\ ret'.op = "_handle_tweet"
       /\ ret'.result.outcome \in {"classify", "raised", "no_subscribers"}
       /\ LET subs == Range(agents[ret'.event].subscribers)
              failing == {u \in subs : GateFails(ret'.event, u)}
          IN failing # {} /\ failing # subs
       => LET e == ret'.event
              subs == Range(agents[e].subscribers)
              failing == {u \in subs : GateFails(e, u)}
              left == Range(agents'[e].subscribers)
          IN /\ \A u \in failing :
                   Notified(ret'.result.effects, u) /\ u \notin left
             /\ \A u \in subs \ failing : u \in left
             /\ handler'[ret'.result.task].pc
                   \in {"classify_priority", "classify"}]_vars

\* C19: a subscriber the billing gate removes is notified of the low balance
\* before the removal; a subscriber removed by a remove_subscriber call of
\* their own is not notified.
C19_NotifyBeforeRemoval ==
    [][\A e \in DOMAIN agents :
          \A u \in Range(agents[e].subscribers) \ Range(agents'[e].subscribers) :
             LET effects == ret'.result.effects IN
             /\ ret'.op \in {"_handle_tweet", "_refine_rules"} =>
                   \E i, j \in DOMAIN effects :
                      /\ i < j
                      /\ effects[i].kind = "notify" /\ effects[i].user = u
                      /\ effects[j].kind = "remove" /\ effects[j].user = u
             /\ ret'.op = "remove_subscriber" =>
                   /\ ret'.user = u
                   /\ ~Notified(effects, u)]_vars

\* the billing gate of _handle_tweet refused the only subscriber, whose
\* balance had reached 2.00, notified them and then removed them
C19_Witness ==
    /\ ret.op = "_handle_tweet"
    /\ ret.result.outcome = "raised"
    /\ ret.result.effects =
          <<[kind |-> "notify", user |-> "u1", balance |-> 200],
            [kind |-> "remove", user |-> "u1"]>>
    /\ agents["e1"].subscribers = <<>>

\* the accounts of Monitor e include the author of post t, compared
\* case-insensitively
Follows(e, t) ==
    \E acc \in Range(Get(agents[e].ruleset, "accounts", <<>>)) :
       lower(acc) = lower(t.userName)

\* C20: for every post of a batch, the dispatcher starts _handle_tweet for
\* Monitor m if and only if m is active and its Ruleset accounts include the
\* author of the post, compared case-insensitively.
C20_Dispatch ==
    [][ret'.op = "_websocket_tweet_handler" =>
          \A i \in DOMAIN ret'.result.tweets : \A e \in DOMAIN agents :
             LET t == ret'.result.tweets[i] IN
             [event |-> e, tweet |-> t] \in ret'.result.started
                <=> agents[e].status = "active" /\ Follows(e, t)]_vars

\* C22: when the funds transfer of a due daily fee fails, the result of
\* check_and_charge_daily_fee does not carry the stop signal that insufficient
\* balance carries.
C22_TransferFailureIsNotInsolvency ==
    [][FeeResumeStep /\ ~ret'.result.charged
          => ~Flag(ret'.result, "should_stop")]_vars

\* the accounts a call of create_agent asked the feed source to follow and
\* the feed source accepted, under the names the feed source knows them by
AskedAccounts(response) ==
    IF response.kind = "json" /\ "accounts" \in DOMAIN response.value
    THEN response.value.accounts ELSE <<>>
RegisteredAccounts(response, accepted) ==
    LET asked == AskedAccounts(response) IN
    {lstrip(asked[i], "@") :
        i \in {j \in DOMAIN asked :
                  j <= ACCOUNT_LIMIT /\ lstrip(asked[j], "@") \in accepted}}

C24_NoWorkUnlessActive ==
    [][/\ ret'.op \in {"_handle_tweet", "_refine_rules"}
       /\ \/ user_balances' # user_balances
          \/ ret'.phase = "await"
          \/ Appended(ret'.event)
       => agents[ret'.event].status = "active"]_vars

\* the step is the first one of a _handle_tweet that found its Monitor active
EntryStep ==
    /\ ret'.op = "_handle_tweet"
    /\ handler[ret'.result.task].pc = "idle"
    /\ agents[ret'.event].status = "active"

\* the step ran the billing gate of _handle_tweet
GateStep ==
    /\ ret'.op = "_handle_tweet"
    /\ ret'.result.outcome \in {"classify", "raised", "no_subscribers"}

\* C26: when the billing gate of _handle_tweet leaves the subscriber list
\* empty, the coroutine ends at once: no call of the Reasoning Client, no
\* item stored, nothing delivered.
C26_EmptyAfterGate ==
    [][GateStep /\ agents'[ret'.event].subscribers = <<>>
          => /\ ret'.phase # "await"
             /\ handler'[ret'.result.task] = IdleHandler
             /\ UNCHANGED intelligence_db
             /\ ret'.result.delivered = <<>>]_vars

\* the gate removed the last subscriber, and the gate found nobody to charge
C26_Witness ==
    /\ ret.op = "_handle_tweet"
    /\ ret.result.outcome = "no_subscribers"
    /\ agents[ret.event].subscribers = <<>>
    /\ agents[ret.event].status = "active"

\* C27: a post that matches no priority node and that the pre-filter skips
\* is counted in total_tweets and nothing else happens: no charge, no
\* removal, no call of the Reasoning Client, no item stored or delivered.
C27_PreFilterSkip ==
    [][/\ EntryStep
       /\ ~check_priority_node(ret'.result.post,
                               agents[ret'.event].ruleset).is_priority
       /\ should_skip_tweet(ret'.result.post)
       => /\ ret'.result.metrics = {"total_tweets"}
          /\ UNCHANGED <<user_balances, usage_data, agents, intelligence_db,
                         stop_tasks, handler>>
          /\ ret'.phase = "return"
          /\ ret'.result.effects = <<>>
          /\ ret'.result.delivered = <<>>]_vars

\* a post with no followers reached an active Monitor that has a subscriber
C27_Witness ==
    /\ ret.op = "_handle_tweet"
    /\ ret.result.post = SpamPost
    /\ ret.result.outcome = "prefiltered"
    /\ agents[ret.event].subscribers # <<>>

\* the thresholds the Monitor's Ruleset holds, with the defaults of the code
Threshold(ruleset, key, default) ==
    IF "filters" \in DOMAIN ruleset /\ key \in DOMAIN ruleset.filters
    THEN ruleset.filters[key] ELSE default

\* the classification passes the filters of the Ruleset
PassesFilters(analysis, ruleset) ==
    /\ ~IsNone(analysis)
    /\ analysis.relevant
    /\ analysis.relevance_score
          >= Threshold(ruleset, "relevance_threshold", RELEVANCE_DEFAULT)
    /\ analysis.credibility_score
          >= Threshold(ruleset, "credibility_threshold", CREDIBILITY_DEFAULT)

\* C28: on the non-priority path an item is stored exactly when the
\* classification is relevant and its two scores reach the thresholds of the
\* Monitor's Ruleset; otherwise the log is unchanged, no metric is written and
\* nothing is delivered.
C28_StoredIffFiltersPass ==
    [][/\ ret'.op = "_handle_tweet"
       /\ handler[ret'.result.task].pc = "classify"
       => LET e == ret'.event
              passes == PassesFilters(ret'.result.analysis, agents[e].ruleset)
          IN /\ Appended(e) <=> passes
             /\ ~passes => /\ UNCHANGED intelligence_db
                           /\ ret'.result.metrics = {}
                           /\ ret'.result.delivered = <<>>]_vars

\* a relevant classification was dropped for its credibility score alone
C28_Witness ==
    /\ ret.op = "_handle_tweet"
    /\ ret.result.outcome = "low_credibility"
    /\ ret.result.analysis.relevant
    /\ ret.result.analysis.relevance_score >= 90

\* C29: an item that was stored is handed to the subscribers at once exactly
\* when its priority is high.
C29_DeliverIffHigh ==
    [][ret'.op = "_handle_tweet" /\ Appended(ret'.event)
          => (ret'.result.delivered = <<NewItem(ret'.event)>>
                 <=> NewItem(ret'.event).priority = "high")]_vars

\* C30: a digest cycle that finds no item of the last hour charges nobody,
\* removes nobody and calls nothing; a digest is asked of the Reasoning
\* Client only when there is such an item and a subscriber is left after the
\* billing gate.
C30_DigestCycle ==
    [][ret'.op = "_generate_hourly_digest" /\ loops[ret'.event].digest_task = "sleep"
          => LET e == ret'.event
                 fresh == {i \in DOMAIN intelligence_db[e] :
                              now - intelligence_db[e][i].analyzed_at
                                  < DIGEST_WINDOW_HOURS}
             IN /\ fresh = {}
                   => /\ UNCHANGED <<user_balances, usage_data, agents,
                                     stop_tasks>>
                      /\ ret'.phase = "return"
                      /\ ret'.result.effects = <<>>
                /\ ret'.phase = "await"
                   => fresh # {} /\ agents'[e].subscribers # <<>>]_vars

\* a cycle skipped although the log holds an item, one exactly an hour old,
\* and a subscriber who could have paid
C30_Witness ==
    /\ ret.op = "_generate_hourly_digest"
    /\ ret.result.outcome = "no_items"
    /\ \E i \in DOMAIN intelligence_db["e1"] :
          intelligence_db["e1"][i].analyzed_at = now - DIGEST_WINDOW_HOURS
    /\ agents["e1"].subscribers = <<"u1">>
    /\ user_balances["u1"] = 202

\* the latest step took a subscriber off the list of its Monitor
Removal ==
    /\ ret.op \in {"remove_subscriber", "_handle_tweet", "_refine_rules"}
    /\ \E i \in DOMAIN ret.result.effects :
          ret.result.effects[i].kind = "remove"

\* C23: when a removal, asked for by the subscriber or made by a billing
\* gate, leaves an active Monitor without subscribers, the Monitor's status
\* becomes stopped at some later point.
C23_EmptyMonitorStops ==
    \A e \in Monitors :
        (/\ Removal
         /\ ret.event = e
         /\ agents[e].status = "active"
         /\ agents[e].subscribers = <<>>)
            ~> (e \in DOMAIN agents /\ agents[e].status = "stopped")

\* the billing gate of the refinement cycle removed the last subscriber of an
\* active Monitor
C23_Witness ==
    /\ Removal
    /\ ret.op = "_refine_rules"
    /\ agents[ret.event].status = "active"
    /\ agents[ret.event].subscribers = <<>>

\* C25: start_agent is called for a Monitor only when one of the Monitor's
\* subscribers has had the minimum balance confirmed.
C25_ActiveAfterCheck ==
    [][ret'.op \in {"process_polymarket_url", "main"}
          => \A e \in ret'.result.started :
                \E u \in Range(agents'[e].subscribers) :
                    <<u, e>> \in checked']_vars

\* no check_and_charge_daily_fee of the subscriber is suspended at the
\* transfer
NoFeeInFlight(u) ==
    \A t \in FeeTasks : fee_task[t].pc = "transfer" => fee_task[t].user # u

\* C36: check and debit are serialized per subscriber: once no fee check of
\* a subscriber is suspended, the stored balance is the initial balance minus
\* every fee and every call cost charged with success, also when a
\* record_grok_call completed while the fee check waited for the transfer.
C36_DebitsSerialized ==
    \A u \in Users :
        NoFeeInFlight(u) => user_balances[u] = initial_balance[u] - Paid(u)

\* C39: a step of _handle_tweet that debits a subscriber for a
\* classification goes on to the classification call of the Reasoning
\* Client, also when another subscriber fails the billing gate.
C39_ChargedIsClassified ==
    [][/\ ret'.op = "_handle_tweet"
       /\ \E u \in Subscribers : user_balances'[u] < user_balances[u]
       => /\ ret'.phase = "await"
          /\ handler'[ret'.result.task].pc
                \in {"classify_priority", "classify"}]_vars

\* the affordability floor of usage_billing.py:98
BelowFloor(u) == user_balances[u] < GROK_COST_PER_CALL + TWITTER_API_DAILY_FEE

\* the step removed subscriber u from the list of its Monitor
Removed(effects, u) ==
    \E i \in DOMAIN effects : effects[i].kind = "remove" /\ effects[i].user = u

\* C40: the billing gate of _handle_tweet or _refine_rules removes a
\* subscriber only when the subscriber's balance is below the affordability
\* floor; a subscriber who joined through add_subscriber with a sufficient
\* balance is kept.
C40_RemovedOnlyBelowFloor ==
    [][ret'.op \in {"_handle_tweet", "_refine_rules"} =>
          \A u \in Subscribers :
             Removed(ret'.result.effects, u) => BelowFloor(u)]_vars

\* C34: one arrival of a post is charged once: a step that resumes
\* _handle_tweet after its classification call debits no subscriber and
\* starts no second classification call.
C34_ProcessedOnce ==
    [][/\ ret'.op = "_handle_tweet"
       /\ handler[ret'.result.task].pc # "idle"
       => /\ user_balances' = user_balances
          /\ usage_data' = usage_data
          /\ handler'[ret'.result.task].pc = "idle"]_vars

\* every stop_agent execution for Monitor e has run to its end
StopCompleted(e) == stop_tasks[e].created = 0 /\ stop_tasks[e].awaiting = 0

\* C33: once stop_agent has stopped a Monitor and returned, no refinement
\* loop begins another cycle for it, whichever start_agent call created the
\* loop.
C33_NoCycleAfterStop ==
    [][/\ ret'.op = "_refine_rules"
       /\ refine_task[ret'.event][ret'.result.task].pc = "sleep"
       /\ StopCompleted(ret'.event)
       => agents[ret'.event].status # "stopped"]_vars

\* C31: a refinement cycle replaces the metrics by fresh ones and records
\* last_refinement exactly when the Reasoning Client returned a revised
\* Ruleset; a cycle whose call failed assigns neither.
C31_ResetIffRefined ==
    [][/\ ret'.op = "_refine_rules"
       /\ refine_task[ret'.event][ret'.result.task].pc = "call"
       => /\ "performance_metrics" \in ret'.result.writes
                <=> ret'.result.outcome = "refined"
          /\ "last_refinement" \in ret'.result.writes
                <=> ret'.result.outcome = "refined"]_vars

\* the accounts the Ruleset of Monitor e names
Watched(e) == Range(Get(agents[e].ruleset, "accounts", <<>>))

\* C38: a step that deregisters accounts for one Monitor (stop_agent or a
\* refinement cycle) removes from the feed source no account that the
\* Ruleset of another, active Monitor names.
C38_SharedAccountsStay ==
    [][\A e \in DOMAIN agents :
          (e # ret'.event /\ agents[e].status = "active")
             => Watched(e) \cap (feed.registered \ feed'.registered) = {}]_vars

\* C32: when a successful refinement cycle of an active Monitor completes,
\* the Ruleset of the Monitor is the Ruleset that cycle received, whole; the
\* accounts only the old Ruleset named are not registered and the accounts
\* only the new one names are.
C32_WholeReplacement ==
    [][/\ ret'.op = "_refine_rules"
       /\ ret'.phase = "return"
       /\ ret'.result.outcome = "refined"
       /\ "ruleset" \in ret'.result.writes
       /\ agents[ret'.event].status = "active"
       => LET old_accounts ==
                  Range(Get(ret'.result.old_ruleset, "accounts", <<>>))
              new_accounts ==
                  Range(Get(ret'.result.refined_ruleset, "accounts", <<>>))
          IN /\ agents'[ret'.event].ruleset = ret'.result.refined_ruleset
             /\ (old_accounts \ new_accounts) \cap feed'.registered = {}
             /\ (new_accounts \ old_accounts) \subseteq feed'.registered]_vars

\* C37: a stop_agent execution that the Monitor's own daily-fee loop started,
\* with no other stop_agent of the Monitor under way, ends by returning,
\* and then the Monitor has status stopped, no task of it is registered,
\* the accounts of its Ruleset are not registered at the feed source and
\* the registry on disk holds the status stopped.
C37_LoopStopCompletes ==
    [][/\ ret'.op = "stop_agent"
       /\ "task" \in DOMAIN ret'.result
       /\ ret'.phase # "await"
       /\ StopCompleted(ret'.event)
       => /\ ret'.phase = "return"
          /\ agents'[ret'.event].status = "stopped"
          /\ loops'[ret'.event].registered = 0
          /\ Watched(ret'.event) \cap feed'.registered = {}
          /\ saved_agents'[ret'.event].status = "stopped"]_vars

\* C35: the relevant count of the dict a Monitor holds is the number of
\* items the non-priority path stored since the dict took the Monitor's
\* place, and its total the number of posts counted since then, whatever
\* _handle_tweet executions and refinement cycles ran in between.
C35_NoMetricLost ==
    \A e \in DOMAIN performance_metrics :
        LET metrics == metrics_objects[performance_metrics[e]] IN
        /\ metrics.relevant_tweets = since_reset[e].stored
        /\ metrics.total_tweets = since_reset[e].started

====
